---- MODULE Spec2Model ----
(***************************************************************************)
(* dcstop: the stop / teardown orchestration of internal/docker            *)
(* (ContainerOps, ComposeOps) and of cmd (handleImage, handleCompose),     *)
(* run against a remote container-management API whose state may change    *)
(* under the orchestrator (another actor) and whose calls may fail.        *)
(*                                                                         *)
(* One action per remote call the code issues.  A call and its response    *)
(* are one step: the orchestration is sequential and blocks on each call.  *)
(***************************************************************************)
EXTENDS Integers, Sequences, FiniteSets, TLC

(***************************************************************************)
(* Bounds of the model.                                                    *)
(***************************************************************************)
\* project-labelled containers / networks / volumes the remote may hold
NumContainers == 2
NumNetworks == 1
NumVolumes == 1
\* steps another actor may take on the remote state during one run
MaxOther == 1

(***************************************************************************)
(* Identifiers and labels.                                                 *)
(* Resource 0 of each kind belongs to another project; 1..N to ours.       *)
(***************************************************************************)
ProjectLabelKey == "com.docker.compose.project"
ConfigFileLabelKey == "devcontainer.config_file"

\* the project name / definition path the invocation works on
projectName == "proj"
configPath == "/ws/.devcontainer/devcontainer.json"

ContainerNums == 0..NumContainers
NetworkNums == 0..NumNetworks
VolumeNums == 0..NumVolumes

CID(n) == <<"container", n>>
NID(n) == <<"network-id", n>>
NName(n) == <<"network-name", n>>
VName(n) == <<"volume", n>>
NoID == <<"none", 0>>

\* fmt.Sprintf("<key>=%s", value)
LabelFilterOf(key, value) == <<key, value>>
NoFilter == <<"none", "none">>

\* labels the provisioning tool put on resource n
LabelsOf(n) ==
  IF n = 0
  THEN {<<ProjectLabelKey, "other">>, <<ConfigFileLabelKey, "/other/.devcontainer/devcontainer.json">>}
  ELSE {<<ProjectLabelKey, projectName>>, <<ConfigFileLabelKey, configPath>>}

\* every ordering of a finite set, as sequences
Orderings(S) ==
  {s \in [1..Cardinality(S) -> S] : \A i, j \in 1..Cardinality(S) : s[i] = s[j] => i = j}

Ops == {"StopContainers", "RemoveContainers", "StopComposeProject",
        "DownComposeProject", "handleImage", "handleCompose"}

VARIABLES
  remoteContainers,  \* [ContainerNums -> {"absent", "running", "exited"}]
  remoteNetworks,    \* [NetworkNums -> BOOLEAN]
  remoteVolumes,     \* [VolumeNums -> BOOLEAN]
  op,                \* the operation invoked, "none" before
  pc,                \* position in it
  idx,               \* loop index of the current phase
  found,             \* handleImage / handleCompose: the containers reported
  containers,        \* the containers the loops range over
  networks,          \* networks listed by DownComposeProject
  volumes,           \* volumes listed by DownComposeProject
  removeVolumes,     \* argument of DownComposeProject / volumesFlag
  downFlag,          \* --down
  cancelled,         \* ctx is done
  calls,             \* the remote calls issued in this invocation, in order
  result,            \* what the invocation returned
  reinvoked,         \* this is the second invocation in a row
  firstResult,       \* what the first invocation returned
  quiet,             \* this invocation: every call succeeds, no other actor
  otherSteps         \* steps the other actor took

\* the command line (cmd/root.go) and the functions of file paths
VARIABLES
  runPc,             \* position in runStop, "off" when runStop is not running
  volumesFlag,       \* --volumes
  fs,                \* what each candidate devcontainer.json holds
  configPaths,       \* FindDevcontainerConfigs' result
  configs,           \* the configs that parsed
  warnings,          \* the paths a "Warning: failed to parse" line was printed for
  offered,           \* the configs SelectConfig chose from
  prompt,            \* the selection prompt: "none", "answered", "cancelled"
  selectedConfig,    \* SelectConfig's result
  clientCreated,     \* NewClientWithContext returned a client
  dispatched,        \* the handler runStop called, "none" before
  runErr,            \* what runStop returned
  exitCode,          \* the process's exit status, -1 while it runs
  fn,                \* the function of paths that was applied, "none" before
  input,             \* its argument
  output             \* its result

orchestration ==
  <<remoteContainers, remoteNetworks, remoteVolumes, op, pc, idx, found,
    containers, networks, volumes, removeVolumes, cancelled,
    calls, result, reinvoked, firstResult, quiet, otherSteps>>

cli == <<runPc, volumesFlag, fs, configPaths, configs, warnings, offered, prompt,
         selectedConfig, clientCreated, dispatched, runErr, exitCode>>

pure == <<fn, input, output>>

vars == <<orchestration, downFlag, cli, pure>>

\* runStop is not running
CliIdle ==
  /\ runPc = "off"
  /\ volumesFlag = FALSE
  /\ fs = <<>>
  /\ configPaths = <<>>
  /\ configs = <<>>
  /\ warnings = <<>>
  /\ offered = <<>>
  /\ prompt = "none"
  /\ selectedConfig = <<>>
  /\ clientCreated = FALSE
  /\ dispatched = "none"
  /\ runErr = "none"
  /\ exitCode = -1

\* no function of paths is being applied
PureIdle ==
  /\ fn = "none"
  /\ input = <<>>
  /\ output = <<>>

remote == <<remoteContainers, remoteNetworks, remoteVolumes>>
locals == <<found, containers, networks, volumes>>
args == <<op, removeVolumes, downFlag>>

NoResult == [status |-> "none", msg |-> "", id |-> NoID, cause |-> "none"]
Success == [status |-> "ok", msg |-> "", id |-> NoID, cause |-> "none"]
\* variant: the error message leaves the identifier out
ErrorfWithoutID(msg, id, cause) ==
  [status |-> "err", msg |-> msg, id |-> <<"none", 0>>, cause |-> cause]

\* fmt.Errorf("<msg> %s: %w", id, err): the message, the identifier, the wrapped cause
Errorf(msg, id, cause) == [status |-> "err", msg |-> msg, id |-> id, cause |-> cause]

ContainerInfo(n) == [ID |-> CID(n), Labels |-> LabelsOf(n)]
NetworkInfo(n) == [ID |-> NID(n), Name |-> NName(n)]
VolumeInfo(n) == [Name |-> VName(n), Labels |-> LabelsOf(n)]

NumOf(id) == id[2]

\* one remote call: flag is All of a container list, force of a remove;
\* sent: the request went out (ctx was not yet done when the call was made)
Call(name, filter, arg, flag, outcome) ==
  [call |-> name, filter |-> filter, arg |-> arg, flag |-> flag,
   outcome |-> outcome, sent |-> ~cancelled]

(***************************************************************************)
(* Control flow: the phase that follows a phase, per function.             *)
(***************************************************************************)
\* variant of StopComposeProject: the stopped containers are removed as well
StopComposeProjectNextRemoves(phase) ==
  CASE phase = "list" -> "stop"
    [] phase = "stop" -> "remove"
    [] OTHER -> "done"

\* StopComposeProject: list, then the stop loop, then return nil
StopComposeProjectNext(phase) ==
  CASE phase = "list" -> "stop"
    [] phase = "stop" -> "done"
    [] OTHER -> "done"

\* variant of DownComposeProject: the networks are torn down before the
\* containers are removed
DownComposeProjectNextNetworksFirst(phase, rv) ==
  CASE phase = "list" -> "stop"
    [] phase = "stop" -> "netlist"
    [] phase = "netlist" -> "netremove"
    [] phase = "netremove" -> "remove"
    [] phase = "remove" -> IF rv THEN "vollist" ELSE "done"
    [] phase = "vollist" -> "volremove"
    [] phase = "volremove" -> "done"
    [] OTHER -> "done"

\* variant of DownComposeProject: the volumes are removed whatever
\* removeVolumes says
DownComposeProjectNextAlwaysVolumes(phase, rv) ==
  CASE phase = "list" -> "stop"
    [] phase = "stop" -> "remove"
    [] phase = "remove" -> "netlist"
    [] phase = "netlist" -> "netremove"
    [] phase = "netremove" -> "vollist"
    [] phase = "vollist" -> "volremove"
    [] phase = "volremove" -> "done"
    [] OTHER -> "done"

\* DownComposeProject: list, stop loop, remove loop, network list, network
\* remove loop, and only if removeVolumes the volume list and remove loop
DownComposeProjectNext(phase, rv) ==
  CASE phase = "list" -> "stop"
    [] phase = "stop" -> "remove"
    [] phase = "remove" -> "netlist"
    [] phase = "netlist" -> "netremove"
    [] phase = "netremove" -> IF rv THEN "vollist" ELSE "done"
    [] phase = "vollist" -> "volremove"
    [] phase = "volremove" -> "done"
    [] OTHER -> "done"

\* handleImage: find, StopContainers, and if downFlag RemoveContainers
handleImageNext(phase, df) ==
  CASE phase = "find" -> "stop"
    [] phase = "stop" -> IF df THEN "remove" ELSE "done"
    [] phase = "remove" -> "done"
    [] OTHER -> "done"

\* handleCompose: find, then DownComposeProject(volumesFlag) if downFlag,
\* StopComposeProject otherwise; either starts with its own list
handleComposeNext(phase, rv, df) ==
  IF phase = "find" THEN "list"
  ELSE IF df THEN DownComposeProjectNext(phase, rv)
  ELSE StopComposeProjectNext(phase)

FollowingPhase(o, phase, rv, df) ==
  CASE o = "StopContainers" -> "done"
    [] o = "RemoveContainers" -> "done"
    [] o = "StopComposeProject" -> StopComposeProjectNext(phase)
    [] o = "DownComposeProject" -> DownComposeProjectNext(phase, rv)
    [] o = "handleImage" -> handleImageNext(phase, df)
    [] o = "handleCompose" -> handleComposeNext(phase, rv, df)

\* the sequence a loop phase ranges over
LoopSeq(phase, cs, ns, vs) ==
  CASE phase \in {"stop", "remove"} -> cs
    [] phase = "netremove" -> ns
    [] phase = "volremove" -> vs
    [] OTHER -> <<0>>

\* variant: an empty result makes the operation return at once
EnterReturnsOnEmpty(o, phase, cs, ns, vs, rv, df) ==
  IF phase # "done" /\ Len(LoopSeq(phase, cs, ns, vs)) = 0 THEN "done" ELSE phase

\* a `for range` over an empty sequence issues no call: control falls through
RECURSIVE Enter(_, _, _, _, _, _, _)
Enter(o, phase, cs, ns, vs, rv, df) ==
  IF phase # "done" /\ Len(LoopSeq(phase, cs, ns, vs)) = 0
  THEN Enter(o, FollowingPhase(o, phase, rv, df), cs, ns, vs, rv, df)
  ELSE phase

\* where an operation starts
FirstPhase(o) ==
  CASE o = "StopContainers" -> "stop"
    [] o = "RemoveContainers" -> "remove"
    [] o \in {"StopComposeProject", "DownComposeProject"} -> "list"
    [] o \in {"handleImage", "handleCompose"} -> "find"

\* variant: the error of a call inside a loop is dropped and the loop goes on
AfterLoopCallIgnoreError(outcome, more) ==
  IF more THEN "next" ELSE "fallthrough"

\* `if err != nil { return fmt.Errorf(...) }`: where control goes after a call
\* of a loop phase, given its outcome and whether the loop has more elements
AfterLoopCall(outcome, more) ==
  IF outcome # "ok" THEN "return"
  ELSE IF more THEN "next"
  ELSE "fallthrough"

\* variant: the error of a list call is dropped
AfterListCallIgnoreError(outcome) == "fallthrough"

\* `if err != nil { return ... }` after a list call
AfterListCall(outcome) == IF outcome # "ok" THEN "return" ELSE "fallthrough"

(***************************************************************************)
(* The remote API as seen through RealDockerClient: each adapter method    *)
(* passes ctx to the SDK call and returns the SDK's error unchanged.       *)
(***************************************************************************)
Response(outcome, applied, cancels) ==
  [outcome |-> outcome, applied |-> applied, cancels |-> cancels]

\* runStop passes context.Background(): handleImage/handleCompose never see
\* a cancelled ctx; the Ops methods take the caller's ctx
CtxCancellable == op \notin {"handleImage", "handleCompose"}

\* variant: the adapter does not hand ctx to the SDK call
MutationResponsesIgnoreCtx(present, missingOutcomes) ==
  IF quiet THEN {Response("ok", TRUE, FALSE)}
  ELSE (IF present THEN {Response("ok", TRUE, FALSE)}
        ELSE {Response(o, FALSE, FALSE) : o \in missingOutcomes})
       \cup {Response("transport", FALSE, FALSE)}

\* responses to a call on one resource; missingOutcomes: what the daemon
\* may answer when the resource is gone.  A ctx that is already done makes
\* the SDK return ctx's error without sending; a ctx cancelled while the
\* request is in flight returns ctx's error although the daemon acted.
MutationResponses(present, missingOutcomes) ==
  IF cancelled THEN {Response("canceled", FALSE, FALSE)}
  ELSE IF quiet THEN {Response("ok", TRUE, FALSE)}
  ELSE (IF present THEN {Response("ok", TRUE, FALSE)}
        ELSE {Response(o, FALSE, FALSE) : o \in missingOutcomes})
       \cup {Response("transport", FALSE, FALSE)}
       \cup (IF present THEN {Response("transport", TRUE, FALSE)} ELSE {})
       \cup (IF present /\ CtxCancellable
             THEN {Response("canceled", TRUE, TRUE)} ELSE {})

ListResponses ==
  IF cancelled THEN {Response("canceled", FALSE, FALSE)}
  ELSE IF quiet THEN {Response("ok", TRUE, FALSE)}
  ELSE {Response("ok", TRUE, FALSE), Response("transport", FALSE, FALSE)}
       \cup (IF CtxCancellable THEN {Response("canceled", FALSE, TRUE)} ELSE {})

\* filters.Add("label", LabelFilter); container.ListOptions{All: options.All}
MatchingContainers(filter, all) ==
  {n \in ContainerNums :
     /\ remoteContainers[n] # "absent"
     /\ filter \in LabelsOf(n)
     /\ (all \/ remoteContainers[n] = "running")}

MatchingNetworks(filter) ==
  {n \in NetworkNums : remoteNetworks[n] /\ filter \in LabelsOf(n)}

MatchingVolumes(filter) ==
  {n \in VolumeNums : remoteVolumes[n] /\ filter \in LabelsOf(n)}

(***************************************************************************)
(* Steps.                                                                  *)
(***************************************************************************)
Init ==
  /\ remoteContainers \in [ContainerNums -> {"absent", "running", "exited"}]
  /\ remoteContainers[0] = "running"
  /\ remoteNetworks = [n \in NetworkNums |-> TRUE]
  /\ remoteVolumes = [n \in VolumeNums |-> TRUE]
  /\ op = "none"
  /\ pc = "idle"
  /\ idx = 1
  /\ found = <<>>
  /\ containers = <<>>
  /\ networks = <<>>
  /\ volumes = <<>>
  /\ removeVolumes = FALSE
  /\ downFlag = FALSE
  /\ cancelled = FALSE
  /\ calls = <<>>
  /\ result = NoResult
  /\ reinvoked = FALSE
  /\ firstResult = NoResult
  /\ quiet = FALSE
  /\ otherSteps = 0
  /\ CliIdle
  /\ PureIdle

\* control moves to position p; r is what is returned if p is the return
Goto(p, r) ==
  /\ pc' = p
  /\ idx' = 1
  /\ result' = IF p = "done" THEN r ELSE result
  /\ firstResult' = IF p = "done" /\ ~reinvoked THEN r ELSE firstResult

\* variant: a failed call of a loop is issued once more before giving up
LoopStepRetry(phase, s, outcome, err) ==
  IF outcome # "ok" /\ (Len(calls) = 0 \/ calls[Len(calls)].outcome = "ok")
  THEN UNCHANGED <<pc, idx, result, firstResult>>
  ELSE IF outcome # "ok" THEN Goto("done", err)
  ELSE IF idx < Len(s)
  THEN /\ idx' = idx + 1
       /\ UNCHANGED <<pc, result, firstResult>>
  ELSE Goto(Enter(op, FollowingPhase(op, phase, removeVolumes, downFlag),
                  containers, networks, volumes, removeVolumes, downFlag),
            Success)

\* control after the call of a loop phase over sequence s
LoopStep(phase, s, outcome, err) ==
  LET after == AfterLoopCall(outcome, idx < Len(s)) IN
  CASE after = "return" -> Goto("done", err)
    [] after = "next" ->
         /\ idx' = idx + 1
         /\ UNCHANGED <<pc, result, firstResult>>
    [] after = "fallthrough" ->
         Goto(Enter(op, FollowingPhase(op, phase, removeVolumes, downFlag),
                    containers, networks, volumes, removeVolumes, downFlag),
              Success)

\* the caller invokes an operation
Invoke(o, rv, df, cs) ==
  /\ pc = "idle"
  /\ op' = o
  /\ removeVolumes' = rv
  /\ downFlag' = df
  /\ containers' = cs
  /\ Goto(Enter(o, FirstPhase(o), cs, <<>>, <<>>, rv, df), Success)
  /\ UNCHANGED <<remote, found, networks, volumes, cancelled, calls, reinvoked,
                 quiet, otherSteps>>
  /\ UNCHANGED <<cli, pure>>

\* the arguments an operation can be invoked with
Invocations ==
  {<<o, rv, df, cs>> \in
      Ops \X BOOLEAN \X BOOLEAN
          \X UNION {Orderings({ContainerInfo(n) : n \in S}) :
                      S \in SUBSET (1..NumContainers)} :
     /\ (o \notin {"StopContainers", "RemoveContainers"} => cs = <<>>)
     \* runStop: --volumes requires --down
     /\ (o \in {"handleImage", "handleCompose"} => (rv => df))
     \* the flags are package variables of cmd; the Ops methods do not read them
     /\ (o \notin {"handleImage", "handleCompose"} => ~df)
     /\ (o \notin {"DownComposeProject", "handleImage", "handleCompose"} => ~rv)}

\* the label filter each list call of the invocation is given
ContainerFilter ==
  IF op = "handleImage"
  THEN LabelFilterOf(ConfigFileLabelKey, configPath)
  ELSE LabelFilterOf(ProjectLabelKey, projectName)

\* variant: the network / volume filter carries another project's name
ProjectFilterOtherProject == LabelFilterOf(ProjectLabelKey, "other")

\* fmt.Sprintf("com.docker.compose.project=%s", projectName)
ProjectFilter == LabelFilterOf(ProjectLabelKey, projectName)

\* message of the error a failed container list is wrapped in
FindErrorMsg ==
  IF op = "handleImage" THEN "failed to find containers"
  ELSE "failed to find compose containers"

\* handleImage / handleCompose after their own list succeeded: the early
\* returns on an empty result
AfterFind(o, n, df) ==
  IF o = "handleImage" THEN (IF n = 0 THEN "done" ELSE "stop")
  ELSE IF n = 0 /\ ~df THEN "done"
  ELSE "list"

\* variant: only running containers are listed
ListAllFalse == FALSE

\* ContainerListOptions{All: true, ...}: stopped containers are listed too
ListAll == TRUE

\* ContainerList, from FindComposeContainers / FindDevcontainersByConfigPath
ContainerList ==
  /\ pc \in {"find", "list"}
  /\ \E r \in ListResponses :
     \E listed \in Orderings({ContainerInfo(n) : n \in MatchingContainers(ContainerFilter, ListAll)}) :
        /\ calls' = Append(calls, Call("ContainerList", ContainerFilter, NoID, ListAll, r.outcome))
        /\ cancelled' = (cancelled \/ r.cancels)
        /\ IF AfterListCall(r.outcome) = "return"
           THEN /\ Goto("done", Errorf(FindErrorMsg, NoID, r.outcome))
                /\ UNCHANGED <<found, containers>>
           ELSE IF pc = "find"
           THEN /\ found' = listed
                /\ containers' = IF op = "handleImage" THEN listed ELSE containers
                /\ Goto(AfterFind(op, Len(listed), downFlag), Success)
           ELSE /\ containers' = listed
                /\ found' = found
                /\ Goto(Enter(op, FollowingPhase(op, "list", removeVolumes, downFlag),
                              listed, networks, volumes, removeVolumes, downFlag),
                        Success)
  /\ UNCHANGED <<remote, args, networks, volumes, reinvoked, quiet, otherSteps>>
  /\ UNCHANGED <<cli, pure>>

\* ContainerStop(ctx, container.ID, nil)
ContainerStop ==
  /\ pc = "stop"
  /\ LET id == containers[idx].ID
         n == NumOf(id) IN
     \E r \in MutationResponses(remoteContainers[n] # "absent", {"notfound"}) :
        /\ calls' = Append(calls, Call("ContainerStop", NoFilter, id, FALSE, r.outcome))
        /\ cancelled' = (cancelled \/ r.cancels)
        /\ remoteContainers' =
             IF r.applied /\ remoteContainers[n] = "running"
             THEN [remoteContainers EXCEPT ![n] = "exited"]
             ELSE remoteContainers
        /\ LoopStep("stop", containers, r.outcome,
                    Errorf("failed to stop container", id, r.outcome))
  /\ UNCHANGED <<remoteNetworks, remoteVolumes, args, locals, reinvoked, quiet, otherSteps>>
  /\ UNCHANGED <<cli, pure>>

\* variant: containers are removed without force
RemoveForceFalse == FALSE

\* the force argument every ContainerRemove of the code is given
RemoveForce == TRUE

\* the daemon refuses to remove a running container unless forced
ContainerRemoveResponses(state, force) ==
  IF ~cancelled /\ state = "running" /\ ~force
  THEN {Response("conflict", FALSE, FALSE)}
  ELSE MutationResponses(state # "absent", {"notfound"})

\* ContainerRemove(ctx, container.ID, true)
ContainerRemove ==
  /\ pc = "remove"
  /\ LET id == containers[idx].ID
         n == NumOf(id) IN
     \E r \in ContainerRemoveResponses(remoteContainers[n], RemoveForce) :
        /\ calls' = Append(calls, Call("ContainerRemove", NoFilter, id, RemoveForce, r.outcome))
        /\ cancelled' = (cancelled \/ r.cancels)
        /\ remoteContainers' =
             IF r.applied THEN [remoteContainers EXCEPT ![n] = "absent"]
             ELSE remoteContainers
        /\ LoopStep("remove", containers, r.outcome,
                    Errorf("failed to remove container", id, r.outcome))
  /\ UNCHANGED <<remoteNetworks, remoteVolumes, args, locals, reinvoked, quiet, otherSteps>>
  /\ UNCHANGED <<cli, pure>>

\* NetworkList(ctx, NetworkListOptions{LabelFilter: project})
NetworkList ==
  /\ pc = "netlist"
  /\ \E r \in ListResponses :
     \E listed \in Orderings({NetworkInfo(n) : n \in MatchingNetworks(ProjectFilter)}) :
        /\ calls' = Append(calls, Call("NetworkList", ProjectFilter, NoID, FALSE, r.outcome))
        /\ cancelled' = (cancelled \/ r.cancels)
        /\ IF AfterListCall(r.outcome) = "return"
           THEN /\ Goto("done", Errorf("failed to list networks", NoID, r.outcome))
                /\ UNCHANGED networks
           ELSE /\ networks' = listed
                /\ Goto(Enter(op, FollowingPhase(op, "netlist", removeVolumes, downFlag),
                              containers, listed, volumes, removeVolumes, downFlag),
                        Success)
  /\ UNCHANGED <<remote, args, found, containers, volumes, reinvoked, quiet, otherSteps>>
  /\ UNCHANGED <<cli, pure>>

\* NetworkRemove(ctx, network.ID); the error names network.Name
NetworkRemove ==
  /\ pc = "netremove"
  /\ LET net == networks[idx]
         n == NumOf(net.ID) IN
     \E r \in MutationResponses(remoteNetworks[n], {"notfound"}) :
        /\ calls' = Append(calls, Call("NetworkRemove", NoFilter, net.ID, FALSE, r.outcome))
        /\ cancelled' = (cancelled \/ r.cancels)
        /\ remoteNetworks' =
             IF r.applied THEN [remoteNetworks EXCEPT ![n] = FALSE]
             ELSE remoteNetworks
        /\ LoopStep("netremove", networks, r.outcome,
                    Errorf("failed to remove network", net.Name, r.outcome))
  /\ UNCHANGED <<remoteContainers, remoteVolumes, args, locals, reinvoked, quiet, otherSteps>>
  /\ UNCHANGED <<cli, pure>>

\* VolumeList(ctx, VolumeListOptions{LabelFilter: project})
VolumeList ==
  /\ pc = "vollist"
  /\ \E r \in ListResponses :
     \E listed \in Orderings({VolumeInfo(n) : n \in MatchingVolumes(ProjectFilter)}) :
        /\ calls' = Append(calls, Call("VolumeList", ProjectFilter, NoID, FALSE, r.outcome))
        /\ cancelled' = (cancelled \/ r.cancels)
        /\ IF AfterListCall(r.outcome) = "return"
           THEN /\ Goto("done", Errorf("failed to list volumes", NoID, r.outcome))
                /\ UNCHANGED volumes
           ELSE /\ volumes' = listed
                /\ Goto(Enter(op, FollowingPhase(op, "vollist", removeVolumes, downFlag),
                              containers, networks, listed, removeVolumes, downFlag),
                        Success)
  /\ UNCHANGED <<remote, args, found, containers, networks, reinvoked, quiet, otherSteps>>
  /\ UNCHANGED <<cli, pure>>

\* VolumeRemove(ctx, volume.Name, true); a forced removal of a volume that is
\* gone may be answered with success or with not-found
VolumeRemove ==
  /\ pc = "volremove"
  /\ LET name == volumes[idx].Name
         n == NumOf(name) IN
     \E r \in MutationResponses(remoteVolumes[n], {"ok", "notfound"}) :
        /\ calls' = Append(calls, Call("VolumeRemove", NoFilter, name, TRUE, r.outcome))
        /\ cancelled' = (cancelled \/ r.cancels)
        /\ remoteVolumes' =
             IF r.applied THEN [remoteVolumes EXCEPT ![n] = FALSE]
             ELSE remoteVolumes
        /\ LoopStep("volremove", volumes, r.outcome,
                    Errorf("failed to remove volume", name, r.outcome))
  /\ UNCHANGED <<remoteContainers, remoteNetworks, args, locals, reinvoked, quiet, otherSteps>>
  /\ UNCHANGED <<cli, pure>>

\* the caller's ctx is cancelled between two calls
Cancel ==
  /\ pc \notin {"idle", "done"}
  /\ CtxCancellable
  /\ ~cancelled
  /\ ~quiet
  /\ cancelled' = TRUE
  /\ UNCHANGED <<remote, args, locals, pc, idx, calls, result, reinvoked,
                 firstResult, quiet, otherSteps>>
  /\ UNCHANGED <<cli, pure>>

\* another actor changes a project resource while the invocation runs
OtherActor ==
  /\ pc \notin {"idle", "done"}
  /\ ~quiet
  /\ otherSteps < MaxOther
  /\ otherSteps' = otherSteps + 1
  /\ \/ \E n \in 1..NumContainers, st \in {"absent", "running", "exited"} :
          /\ remoteContainers[n] # st
          /\ remoteContainers' = [remoteContainers EXCEPT ![n] = st]
          /\ UNCHANGED <<remoteNetworks, remoteVolumes>>
     \/ \E n \in 1..NumNetworks :
          /\ remoteNetworks' = [remoteNetworks EXCEPT ![n] = ~remoteNetworks[n]]
          /\ UNCHANGED <<remoteContainers, remoteVolumes>>
     \/ \E n \in 1..NumVolumes :
          /\ remoteVolumes' = [remoteVolumes EXCEPT ![n] = ~remoteVolumes[n]]
          /\ UNCHANGED <<remoteContainers, remoteNetworks>>
  /\ UNCHANGED <<args, locals, pc, idx, cancelled, calls, result, reinvoked,
                 firstResult, quiet>>
  /\ UNCHANGED <<cli, pure>>

\* the caller invokes the same operation again with the same arguments,
\* under a fresh ctx; this time no call fails and nobody else touches the
\* remote state (an invocation without these guarantees is an invocation
\* from another initial remote state)
Reinvoke ==
  /\ pc = "done"
  /\ ~reinvoked
  /\ reinvoked' = TRUE
  /\ quiet' = TRUE
  /\ cancelled' = FALSE
  /\ calls' = <<>>
  /\ found' = <<>>
  /\ networks' = <<>>
  /\ volumes' = <<>>
  /\ containers' = IF op \in {"StopContainers", "RemoveContainers"} THEN containers ELSE <<>>
  /\ pc' = Enter(op, FirstPhase(op), containers, <<>>, <<>>, removeVolumes, downFlag)
  /\ idx' = 1
  /\ result' = IF pc' = "done" THEN Success ELSE NoResult
  /\ UNCHANGED <<remote, args, firstResult, otherSteps>>
  /\ UNCHANGED <<cli, pure>>

Next ==
  \/ \E a \in Invocations : Invoke(a[1], a[2], a[3], a[4])
  \/ ContainerList
  \/ ContainerStop
  \/ ContainerRemove
  \/ NetworkList
  \/ NetworkRemove
  \/ VolumeList
  \/ VolumeRemove
  \/ Cancel
  \/ OtherActor
  \/ Reinvoke

Spec == Init /\ [][Next]_vars

(***************************************************************************)
(* File paths and the project namer.  A name is the sequence of its        *)
(* characters; a path is whether it is rooted and the sequence of its      *)
(* elements.                                                               *)
(***************************************************************************)
MaxDepth == 3
MaxFiles == 2
MaxConfigs == 2
NumSubdirs == 2
MaxArray == 2
MaxComment == 2

Uppercase == <<"A", "B", "C", "D", "E", "F", "G", "H", "I", "J", "K", "L", "M",
               "N", "O", "P", "Q", "R", "S", "T", "U", "V", "W", "X", "Y", "Z">>
Lowercase == <<"a", "b", "c", "d", "e", "f", "g", "h", "i", "j", "k", "l", "m",
               "n", "o", "p", "q", "r", "s", "t", "u", "v", "w", "x", "y", "z">>

\* the literals of the source
DotDevcontainer == <<".", "d", "e", "v", "c", "o", "n", "t", "a", "i", "n", "e", "r">>
DevcontainerSuffix == <<"_", "d", "e", "v", "c", "o", "n", "t", "a", "i", "n", "e", "r">>
DevcontainerJSON ==
  <<"d", "e", "v", "c", "o", "n", "t", "a", "i", "n", "e", "r", ".", "j", "s", "o", "n">>
ComposeYML ==
  <<"d", "o", "c", "k", "e", "r", "-", "c", "o", "m", "p", "o", "s", "e", ".", "y", "m", "l">>
OverrideYML == <<"o", "v", "e", "r", "r", "i", "d", "e", ".", "y", "m", "l">>
Dot == <<".">>
DotDot == <<".", ".">>
Separator == <<"/">>

Path(abs, segs) == [abs |-> abs, segs |-> segs]

\* filepath.Clean: "." elements go, ".." takes the element before it away,
\* "/.." is "/", a relative path keeps its leading ".." elements
RECURSIVE CleanSegs(_, _, _)
CleanSegs(abs, done, rest) ==
  IF Len(rest) = 0 THEN done
  ELSE LET s == Head(rest) IN
       IF s = Dot THEN CleanSegs(abs, done, Tail(rest))
       ELSE IF s = DotDot
       THEN IF Len(done) > 0 /\ done[Len(done)] # DotDot
            THEN CleanSegs(abs, SubSeq(done, 1, Len(done) - 1), Tail(rest))
            ELSE IF abs THEN CleanSegs(abs, done, Tail(rest))
            ELSE CleanSegs(abs, Append(done, s), Tail(rest))
       ELSE CleanSegs(abs, Append(done, s), Tail(rest))

Clean(p) == Path(p.abs, CleanSegs(p.abs, <<>>, p.segs))

\* filepath.IsAbs
IsAbs(p) == p.abs

\* filepath.Join(dir, f): the elements of both, cleaned
Join(dir, f) == Clean(Path(dir.abs, dir.segs \o f.segs))

\* filepath.Dir: all but the last element, cleaned; "/" and "." are their own
\* directory
Dir(p) ==
  IF Len(p.segs) = 0 THEN p
  ELSE Clean(Path(p.abs, SubSeq(p.segs, 1, Len(p.segs) - 1)))

\* filepath.Base: the last element; "/" for the root, "." for the empty path
Base(p) ==
  IF Len(p.segs) = 0 THEN (IF p.abs THEN Separator ELSE Dot)
  ELSE p.segs[Len(p.segs)]

LowerOf(c) ==
  IF \E i \in DOMAIN Uppercase : Uppercase[i] = c
  THEN Lowercase[CHOOSE i \in DOMAIN Uppercase : Uppercase[i] = c]
  ELSE c

\* strings.ToLower, character by character
ToLower(name) == [i \in DOMAIN name |-> LowerOf(name[i])]

\* variant: the name is used as it is spelled
DeriveDevcontainerProjectNameAsSpelled(path) ==
  LET configDir == Dir(path)
      configDirName == Base(configDir)
  IN  IF configDirName = DotDevcontainer
      THEN Base(Dir(configDir)) \o DevcontainerSuffix
      ELSE configDirName

DeriveDevcontainerProjectName(path) ==
  LET configDir == Dir(path)
      configDirName == Base(configDir)
  IN  IF configDirName = DotDevcontainer
      THEN LET parentDir == Dir(configDir)
               name == Base(parentDir)
           IN  ToLower(name) \o DevcontainerSuffix
      ELSE ToLower(configDirName)

\* variant: the suffix is given whenever the reserved directory is near
DeriveProjectNameFromComposeFileSuffixUnder(path) ==
  LET dir == Dir(path)
  IN  IF Base(dir) = DotDevcontainer
      THEN ToLower(Base(Dir(dir))) \o DevcontainerSuffix
      ELSE IF Base(Dir(dir)) = DotDevcontainer
      THEN ToLower(Base(dir)) \o DevcontainerSuffix
      ELSE ToLower(Base(dir))

DeriveProjectNameFromComposeFile(path) ==
  LET dir == Dir(path)
  IN  IF Base(dir) = DotDevcontainer
      THEN ToLower(Base(Dir(dir))) \o DevcontainerSuffix
      ELSE IF Base(Dir(dir)) = DotDevcontainer
      THEN ToLower(Base(dir))
      ELSE ToLower(Base(dir))

\* variant: the last compose file names the project
DeriveProjectNameFromComposeFilesLast(files) ==
  IF Len(files) = 0 THEN <<>>
  ELSE DeriveProjectNameFromComposeFile(files[Len(files)])

DeriveProjectNameFromComposeFiles(files) ==
  IF Len(files) = 0 THEN <<>>
  ELSE DeriveProjectNameFromComposeFile(files[1])

\* devcontainer.Config; Image is "" when the file names no image
Config(path, image, composeFiles) ==
  [ConfigPath |-> path, Image |-> image, DockerComposeFile |-> composeFiles]

IsImageBased(c) == c.Image # "" /\ Len(c.DockerComposeFile) = 0

IsComposeBased(c) == Len(c.DockerComposeFile) > 0

\* variant: the compose files are taken as written
GetComposeFilesAsWritten(c) == c.DockerComposeFile

\* variant: relative entries are resolved against the directory above the
\* one holding the definition file
GetComposeFilesFromParentDir(c) ==
  IF Len(c.DockerComposeFile) = 0 THEN <<>>
  ELSE LET configDir == Dir(Dir(c.ConfigPath))
       IN  [i \in DOMAIN c.DockerComposeFile |->
              LET f == c.DockerComposeFile[i]
              IN  IF IsAbs(f) THEN f ELSE Clean(Join(configDir, f))]

\* nil is the empty sequence
GetComposeFiles(c) ==
  IF Len(c.DockerComposeFile) = 0 THEN <<>>
  ELSE LET configDir == Dir(c.ConfigPath)
       IN  [i \in DOMAIN c.DockerComposeFile |->
              LET f == c.DockerComposeFile[i]
              IN  IF IsAbs(f) THEN f ELSE Clean(Join(configDir, f))]

DeriveProjectNameFromConfig(cfg) ==
  IF Len(cfg.DockerComposeFile) > 0
  THEN DeriveProjectNameFromComposeFiles(GetComposeFiles(cfg))
  ELSE DeriveDevcontainerProjectName(cfg.ConfigPath)

\* the loop of deduplicateConfigs: seen is the set of names met so far
RECURSIVE dedupeLoop(_, _, _)
dedupeLoop(rest, seen, res) ==
  IF Len(rest) = 0 THEN res
  ELSE LET cfg == Head(rest)
           projectName_ == DeriveProjectNameFromConfig(cfg)
       IN  IF projectName_ \in seen
           THEN dedupeLoop(Tail(rest), seen, res)
           ELSE dedupeLoop(Tail(rest), seen \cup {projectName_}, Append(res, cfg))

\* variant: a later config of a name takes the place of the earlier one
RECURSIVE deduplicateConfigsKeepLast(_)
deduplicateConfigsKeepLast(cs) ==
  IF Len(cs) = 0 THEN <<>>
  ELSE IF \E j \in 2..Len(cs) :
            DeriveProjectNameFromConfig(cs[j]) = DeriveProjectNameFromConfig(cs[1])
       THEN deduplicateConfigsKeepLast(Tail(cs))
       ELSE <<cs[1]>> \o deduplicateConfigsKeepLast(Tail(cs))

deduplicateConfigs(cs) ==
  IF Len(cs) <= 1 THEN cs
  ELSE dedupeLoop(cs, {}, <<>>)

(***************************************************************************)
(* The inputs the functions of paths are applied to.                       *)
(***************************************************************************)
SegNames == {<<"A", "p">>, <<"a", "p">>, <<"W", "s">>, DotDevcontainer}
FileNames == {DevcontainerJSON, ComposeYML}

DirSeqs == UNION {[1..n -> SegNames] : n \in 0..MaxDepth}

\* rooted and relative paths of files, MaxDepth directories deep at most
Paths == {Path(abs, Append(ds, f)) : abs \in BOOLEAN, ds \in DirSeqs, f \in FileNames}

\* the workspace, and the directories .devcontainer can hold, as os.ReadDir
\* orders them
absDir == Path(TRUE, <<<<"h">>, <<"W", "s">>>>)
SubdirNames == <<<<"A", "p">>, <<"a", "p">>, <<"d", "b">>, <<"w", "e", "b">>>>

\* the files FindDevcontainerConfigs looks for, in the order it looks
ConfigLocations ==
  <<Join(Join(absDir, Path(FALSE, <<DotDevcontainer>>)), Path(FALSE, <<DevcontainerJSON>>))>>
  \o [i \in 1..NumSubdirs |->
        Join(Join(absDir, Path(FALSE, <<DotDevcontainer>>)),
             Path(FALSE, <<SubdirNames[i], DevcontainerJSON>>))]

\* what a devcontainer.json can give for dockerComposeFile
ComposeOptions ==
  { <<>>,
    <<Path(FALSE, <<ComposeYML>>)>>,
    <<Path(FALSE, <<DotDot, ComposeYML>>)>>,
    <<Path(FALSE, <<DotDot, ComposeYML>>), Path(FALSE, <<OverrideYML>>)>>,
    <<Path(TRUE, <<<<"s", "r", "v">>, <<"D", "b">>, ComposeYML>>),
      Path(FALSE, <<ComposeYML>>)>> }

Images == {"", "golang:1.21"}

ConfigUniverse ==
  {Config(ConfigLocations[i], im, cf) :
     i \in DOMAIN ConfigLocations, im \in Images, cf \in ComposeOptions}

\* compose files as GetComposeFiles returns them
SamplePaths ==
  { Path(TRUE, <<<<"h">>, <<"W", "s">>, DotDevcontainer, ComposeYML>>),
    Path(TRUE, <<<<"h">>, <<"W", "s">>, DotDevcontainer, <<"A", "p">>, ComposeYML>>),
    Path(TRUE, <<<<"h">>, <<"W", "s">>, ComposeYML>>),
    Path(TRUE, <<<<"h">>, <<"W", "s">>, <<"D", "o", "c", "k", "e", "r">>, OverrideYML>>),
    Path(TRUE, <<ComposeYML>>) }

\* a workspace on disk: dir, the root directory exists; reserved, what
\* .devcontainer is there; flat, .devcontainer/devcontainer.json exists;
\* entries, what .devcontainer holds under each name os.ReadDir can list:
\* nothing, a file, a directory, or a directory with a devcontainer.json
Trees ==
  {t \in [dir : BOOLEAN, reserved : {"absent", "dir", "unreadable"}, flat : BOOLEAN,
          entries : [1..NumSubdirs -> {"none", "file", "dir", "config"}]] :
     /\ (~t.dir => t.reserved = "absent")
     /\ (t.reserved = "absent" =>
           ~t.flat /\ \A i \in 1..NumSubdirs : t.entries[i] = "none")}

\* the loop over os.ReadDir's entries: a directory's devcontainer.json, if
\* it is there
RECURSIVE SubConfigs(_, _)
SubConfigs(t, i) ==
  IF i > NumSubdirs THEN <<>>
  ELSE (IF t.entries[i] = "config" THEN <<ConfigLocations[i + 1]>> ELSE <<>>)
       \o SubConfigs(t, i + 1)

\* variant: the directories are looked at before the flat file
FindDevcontainerConfigsSubdirsFirst(t) ==
  IF ~t.dir THEN [paths |-> <<>>, err |-> "directory does not exist"]
  ELSE IF t.reserved = "absent" THEN [paths |-> <<>>, err |-> "nil"]
  ELSE IF t.reserved = "unreadable"
  THEN [paths |-> <<>>, err |-> "failed to read .devcontainer directory"]
  ELSE [paths |-> SubConfigs(t, 1) \o (IF t.flat THEN <<ConfigLocations[1]>> ELSE <<>>),
        err |-> "nil"]

\* variant: the root directory is not looked at
FindDevcontainerConfigsNoRootCheck(t) ==
  IF t.reserved = "absent" THEN [paths |-> <<>>, err |-> "nil"]
  ELSE IF t.reserved = "unreadable"
  THEN [paths |-> <<>>, err |-> "failed to read .devcontainer directory"]
  ELSE [paths |-> (IF t.flat THEN <<ConfigLocations[1]>> ELSE <<>>) \o SubConfigs(t, 1),
        err |-> "nil"]

\* FindDevcontainerConfigs(dir): the paths found, or an error and no path
FindDevcontainerConfigs(t) ==
  IF ~t.dir THEN [paths |-> <<>>, err |-> "directory does not exist"]
  ELSE IF t.reserved = "absent" THEN [paths |-> <<>>, err |-> "nil"]
  ELSE LET mainConfig == IF t.flat THEN <<ConfigLocations[1]>> ELSE <<>>
       IN  IF t.reserved = "unreadable"
           THEN [paths |-> <<>>, err |-> "failed to read .devcontainer directory"]
           ELSE [paths |-> mainConfig \o SubConfigs(t, 1), err |-> "nil"]

\* JSON values a devcontainer.json can hold under a key; "absent" is the key
\* left out
JSONValue(kind, val) == [kind |-> kind, val |-> val]
JSONNull == JSONValue("null", <<>>)
JSONAbsent == JSONValue("absent", <<>>)
JSONStrings(S) == {JSONValue("string", str) : str \in S}
JSONOthers == {JSONValue("number", 1), JSONValue("bool", TRUE), JSONValue("object", <<>>)}
JSONElements ==
  JSONStrings({"docker-compose.yml", "../docker-compose.yml"})
    \cup {JSONNull, JSONValue("number", 1)}
JSONArrays ==
  {JSONValue("array", a) : a \in UNION {[1..n -> JSONElements] : n \in 0..MaxArray}}

\* the top-level objects ParseConfig decodes, by their image and
\* dockerComposeFile members
Documents ==
  [image : JSONStrings({"", "golang:1.21"}) \cup {JSONAbsent, JSONNull, JSONValue("number", 1)},
   dockerComposeFile :
     JSONStrings({"", "docker-compose.yml"}) \cup JSONArrays \cup JSONOthers
       \cup {JSONAbsent, JSONNull}]

\* json.Unmarshal into a string: a JSON string is stored, null has no
\* effect, anything else is a type error
UnmarshalString(v) ==
  IF v.kind = "string" THEN [val |-> v.val, err |-> "nil"]
  ELSE IF v.kind \in {"null", "absent"} THEN [val |-> "", err |-> "nil"]
  ELSE [val |-> "", err |-> "cannot unmarshal into string"]

\* json.Unmarshal into a []string: null gives the nil slice, an array gives
\* its elements with "" for a null element, anything else is a type error
UnmarshalStrings(v) ==
  IF v.kind = "null" THEN [val |-> <<>>, err |-> "nil"]
  ELSE IF v.kind = "array" /\ \A i \in DOMAIN v.val : v.val[i].kind \in {"string", "null"}
  THEN [val |-> [i \in DOMAIN v.val |-> UnmarshalString(v.val[i]).val], err |-> "nil"]
  ELSE [val |-> <<>>, err |-> "cannot unmarshal into []string"]

\* the bytes json.RawMessage keeps: those of the value, null included; none
\* for a key left out
RawMessage(v) == IF v.kind = "absent" THEN <<>> ELSE <<v>>

parseDockerComposeFile(data) ==
  IF UnmarshalString(data).err = "nil"
  THEN [val |-> <<UnmarshalString(data).val>>, err |-> "nil"]
  ELSE IF UnmarshalStrings(data).err = "nil"
  THEN [val |-> UnmarshalStrings(data).val, err |-> "nil"]
  ELSE [val |-> <<>>, err |-> "dockerComposeFile must be a string or array of strings"]

\* ParseConfig once the file is read and stripped: the decoding of the
\* object and the construction of the Config
ParseConfigData(path, doc) ==
  LET image == UnmarshalString(doc.image)
      raw == RawMessage(doc.dockerComposeFile)
  IN  IF image.err # "nil"
      THEN [config |-> <<>>, err |-> "failed to parse config"]
      ELSE IF Len(raw) > 0
      THEN LET files == parseDockerComposeFile(raw[1])
           IN  IF files.err # "nil"
               THEN [config |-> <<>>, err |-> files.err]
               ELSE [config |-> Config(path, image.val, files.val), err |-> "nil"]
      ELSE [config |-> Config(path, image.val, <<>>), err |-> "nil"]

\* A definition text is a sequence of characters; a string literal, which
\* holds nothing the expressions of stripJSONC match, is one element of it.
Newline == "\n"
Whitespace == {" ", Newline}
Unquote ==
  [lit \in {"\"image\"", "\"dockerComposeFile\"", "\"alpine\"", "\"docker-compose.yml\""} |->
     CASE lit = "\"image\"" -> "image"
       [] lit = "\"dockerComposeFile\"" -> "dockerComposeFile"
       [] lit = "\"alpine\"" -> "alpine"
       [] OTHER -> "docker-compose.yml"]
StringLiterals == DOMAIN Unquote

\* the rest of the line, from its newline on
RECURSIVE RestOfLine(_)
RestOfLine(content) ==
  IF Len(content) = 0 \/ Head(content) = Newline THEN content
  ELSE RestOfLine(Tail(content))

\* ReplaceAllString of //[^\n]* by nothing
RECURSIVE singleLineComment(_)
singleLineComment(content) ==
  IF Len(content) = 0 THEN <<>>
  ELSE IF Len(content) >= 2 /\ content[1] = "/" /\ content[2] = "/"
  THEN singleLineComment(RestOfLine(Tail(Tail(content))))
  ELSE <<Head(content)>> \o singleLineComment(Tail(content))

\* the positions where */ starts
Closings(content) ==
  {k \in 1..(Len(content) - 1) : content[k] = "*" /\ content[k + 1] = "/"}

Min(S) == CHOOSE k \in S : \A l \in S : k <= l

\* ReplaceAllString of /\*[\s\S]*?\*/ by nothing: from /* to the nearest */
RECURSIVE multiLineComment(_)
multiLineComment(content) ==
  IF Len(content) = 0 THEN <<>>
  ELSE LET body == Tail(Tail(content))
       IN  IF Len(content) >= 2 /\ content[1] = "/" /\ content[2] = "*"
              /\ Closings(body) # {}
           THEN multiLineComment(SubSeq(body, Min(Closings(body)) + 2, Len(body)))
           ELSE <<Head(content)>> \o multiLineComment(Tail(content))

\* \s*[}\]] matches at the start
RECURSIVE ClosesAfterSpace(_)
ClosesAfterSpace(content) ==
  /\ Len(content) > 0
  /\ IF Head(content) \in Whitespace THEN ClosesAfterSpace(Tail(content))
     ELSE Head(content) \in {"}", "]"}

\* ReplaceAllString of ,(\s*[}\]]) by $1
RECURSIVE trailingComma(_)
trailingComma(content) ==
  IF Len(content) = 0 THEN <<>>
  ELSE IF Head(content) = "," /\ ClosesAfterSpace(Tail(content))
  THEN trailingComma(Tail(content))
  ELSE <<Head(content)>> \o trailingComma(Tail(content))

\* strings.TrimSpace
RECURSIVE TrimSpace(_)
TrimSpace(content) ==
  IF Len(content) = 0 THEN content
  ELSE IF Head(content) \in Whitespace THEN TrimSpace(Tail(content))
  ELSE IF content[Len(content)] \in Whitespace
  THEN TrimSpace(SubSeq(content, 1, Len(content) - 1))
  ELSE content

stripJSONC(content) ==
  TrimSpace(trailingComma(multiLineComment(singleLineComment(content))))

\* the JSON decoder: white space between the elements has no meaning
Tokens(content) == SelectSeq(content, LAMBDA ch : ch \notin Whitespace)

SyntaxError == [ok |-> FALSE, val |-> <<>>, rest |-> <<>>]

\* the elements of an array after "[" : string literals, separated by commas
RECURSIVE DecodeElements(_, _)
DecodeElements(toks, acc) ==
  IF Len(toks) < 2 \/ toks[1] \notin StringLiterals THEN SyntaxError
  ELSE LET elems == Append(acc, JSONValue("string", Unquote[toks[1]]))
       IN  IF toks[2] = "]"
           THEN [ok |-> TRUE, val |-> JSONValue("array", elems),
                 rest |-> SubSeq(toks, 3, Len(toks))]
           ELSE IF toks[2] = ","
           THEN DecodeElements(SubSeq(toks, 3, Len(toks)), elems)
           ELSE SyntaxError

\* a value: a string literal or an array of them
DecodeValue(toks) ==
  IF Len(toks) = 0 THEN SyntaxError
  ELSE IF toks[1] \in StringLiterals
  THEN [ok |-> TRUE, val |-> JSONValue("string", Unquote[toks[1]]), rest |-> Tail(toks)]
  ELSE IF toks[1] = "["
  THEN IF Len(toks) >= 2 /\ toks[2] = "]"
       THEN [ok |-> TRUE, val |-> JSONValue("array", <<>>),
             rest |-> SubSeq(toks, 3, Len(toks))]
       ELSE DecodeElements(Tail(toks), <<>>)
  ELSE SyntaxError

\* the members of an object after "{" or ",": the members rawConfig names
\* are stored, a later one over an earlier one
RECURSIVE DecodeMembers(_, _)
DecodeMembers(toks, doc) ==
  IF Len(toks) < 3 \/ toks[1] \notin StringLiterals \/ toks[2] # ":" THEN SyntaxError
  ELSE LET v == DecodeValue(SubSeq(toks, 3, Len(toks)))
           key == Unquote[toks[1]]
           stored == IF key = "image" THEN [doc EXCEPT !.image = v.val]
                     ELSE IF key = "dockerComposeFile"
                     THEN [doc EXCEPT !.dockerComposeFile = v.val]
                     ELSE doc
       IN  IF ~v.ok \/ Len(v.rest) = 0 THEN SyntaxError
           ELSE IF v.rest[1] = "}"
           THEN [ok |-> TRUE, val |-> stored, rest |-> Tail(v.rest)]
           ELSE IF v.rest[1] = ","
           THEN DecodeMembers(Tail(v.rest), stored)
           ELSE SyntaxError

\* json.Unmarshal of the cleaned text into rawConfig
Unmarshal(content) ==
  LET toks == Tokens(content)
      empty == [image |-> JSONAbsent, dockerComposeFile |-> JSONAbsent]
      r == IF Len(toks) >= 2 /\ toks[1] = "{"
           THEN IF toks[2] = "}"
                THEN [ok |-> TRUE, val |-> empty, rest |-> SubSeq(toks, 3, Len(toks))]
                ELSE DecodeMembers(Tail(toks), empty)
           ELSE SyntaxError
  IN  IF r.ok /\ Len(r.rest) = 0 THEN [doc |-> r.val, err |-> "nil"]
      ELSE [doc |-> empty, err |-> "syntax error"]

\* ParseConfig once the file is read
ParseConfigOfText(path, content) ==
  LET raw == Unmarshal(stripJSONC(content))
  IN  IF raw.err # "nil" THEN [config |-> <<>>, err |-> "failed to parse config"]
      ELSE ParseConfigData(path, raw.doc)

\* comments: // or /* */ around up to MaxComment characters
CommentBodies == UNION {[1..n -> {"x", "/"}] : n \in 0..MaxComment}
LineComments == {<<"/", "/">> \o b \o <<Newline>> : b \in CommentBodies}
BlockComments == {<<"/", "*">> \o b \o <<"*", "/">> : b \in CommentBodies}

\* the one member of the definition texts
Members ==
  { <<"\"image\"", ":", "\"alpine\"">>,
    <<"\"dockerComposeFile\"", ":", "[", "\"docker-compose.yml\"", "]">>,
    <<"\"dockerComposeFile\"", ":", "[", "\"docker-compose.yml\"", ",", " ", "]">> }

\* a definition text by its parts: a member, a comment or none before and
\* after it, and a trailing comma or none
TextParts ==
  [member : Members,
   before : {<<>>} \cup LineComments \cup BlockComments,
   after : {<<>>} \cup LineComments \cup BlockComments,
   comma : BOOLEAN]

TextOf(parts) ==
  <<"{", Newline>> \o parts.before \o parts.member
    \o (IF parts.comma THEN <<",">> ELSE <<>>) \o <<" ">> \o parts.after \o <<"}", Newline>>

\* what NewClientWithContext reads: the --context flag, the two environment
\* variables, currentContext of config.json ("" when the file cannot be read
\* or parsed), and whether the contexts store holds a usable endpoint for a
\* named context
Environments ==
  [contextName : {"", "default", "remote"},
   DOCKER_CONTEXT : {"", "default", "staging"},
   currentContext : {"", "default", "desktop"},
   DOCKER_HOST : {"", "tcp://10.0.0.1:2375"},
   metaReadable : BOOLEAN]

DefaultDockerHost == "unix:///var/run/docker.sock"

\* client.FromEnv: DOCKER_HOST when set, else the default socket
FromEnv(env) ==
  IF env.DOCKER_HOST # "" THEN [source |-> "DOCKER_HOST", host |-> env.DOCKER_HOST]
  ELSE [source |-> "default socket", host |-> DefaultDockerHost]

\* the endpoint a named context stands for
WithHost(name) == [source |-> "context", host |-> <<"endpoint of", name>>]

\* the context NewClientWithContext settles on, "" for none
resolvedContext(env) ==
  IF env.contextName # "" THEN env.contextName
  ELSE IF env.DOCKER_CONTEXT # "" THEN env.DOCKER_CONTEXT
  ELSE IF env.DOCKER_HOST = ""
       THEN IF env.currentContext # "" /\ env.currentContext # "default"
            THEN env.currentContext
            ELSE ""
       ELSE ""

\* the options of the client, or the error of the resolution
ClientOpts(env) ==
  LET ctx == resolvedContext(env)
  IN  IF ctx # "" /\ ctx # "default"
      THEN IF env.metaReadable
           THEN [opts |-> WithHost(ctx), err |-> "nil"]
           ELSE [opts |-> <<>>, err |-> "failed to resolve context"]
      ELSE [opts |-> FromEnv(env), err |-> "nil"]

SeqsUpTo(S, n) == UNION {[1..k -> S] : k \in 0..n}

\* no operation of the Docker layer has been invoked
OrchestrationIdle ==
  /\ remoteContainers = [n \in ContainerNums |-> "running"]
  /\ remoteNetworks = [n \in NetworkNums |-> TRUE]
  /\ remoteVolumes = [n \in VolumeNums |-> TRUE]
  /\ op = "none"
  /\ pc = "idle"
  /\ idx = 1
  /\ found = <<>>
  /\ containers = <<>>
  /\ networks = <<>>
  /\ volumes = <<>>
  /\ removeVolumes = FALSE
  /\ cancelled = FALSE
  /\ calls = <<>>
  /\ result = NoResult
  /\ reinvoked = FALSE
  /\ firstResult = NoResult
  /\ quiet = FALSE
  /\ otherSteps = 0

PureInit ==
  /\ fn = "none"
  /\ output = <<>>
  /\ \/ input \in {<<"path", p>> : p \in Paths}
     \/ input \in {<<"files", fs_>> : fs_ \in SeqsUpTo(SamplePaths, MaxFiles)}
     \/ input \in {<<"config", c>> : c \in ConfigUniverse}
     \/ input \in {<<"configs", cs>> : cs \in SeqsUpTo(ConfigUniverse, MaxConfigs)}
     \/ input \in {<<"tree", t>> : t \in Trees}
     \/ input \in {<<"env", env>> : env \in Environments}
     \/ input \in {<<"document", doc>> : doc \in Documents}
     \/ input \in {<<"text", parts>> : parts \in TextParts}
  /\ CliIdle
  /\ downFlag = FALSE
  /\ OrchestrationIdle

\* the function named f is applied to the input of the kind it takes
Apply(f, kind, value) ==
  /\ fn = "none"
  /\ input[1] = kind
  /\ fn' = f
  /\ output' = value
  /\ UNCHANGED <<input, orchestration, downFlag, cli>>

CallDeriveDevcontainerProjectName ==
  Apply("DeriveDevcontainerProjectName", "path",
        DeriveDevcontainerProjectName(input[2]))

CallDeriveProjectNameFromComposeFile ==
  Apply("DeriveProjectNameFromComposeFile", "path",
        DeriveProjectNameFromComposeFile(input[2]))

CallDeriveProjectNameFromComposeFiles ==
  Apply("DeriveProjectNameFromComposeFiles", "files",
        DeriveProjectNameFromComposeFiles(input[2]))

CallDeriveProjectNameFromConfig ==
  Apply("DeriveProjectNameFromConfig", "config",
        DeriveProjectNameFromConfig(input[2]))

CallGetComposeFiles ==
  Apply("GetComposeFiles", "config", GetComposeFiles(input[2]))

CallNewClientWithContext ==
  Apply("NewClientWithContext", "env", ClientOpts(input[2]))

CallParseConfig ==
  Apply("ParseConfig", "document", ParseConfigData(ConfigLocations[1], input[2]))

CallParseConfigOfText ==
  Apply("ParseConfigOfText", "text",
        ParseConfigOfText(ConfigLocations[1], TextOf(input[2])))

CallDeduplicateConfigs ==
  Apply("deduplicateConfigs", "configs", deduplicateConfigs(input[2]))

CallFindDevcontainerConfigs ==
  Apply("FindDevcontainerConfigs", "tree", FindDevcontainerConfigs(input[2]))

PureNext ==
  \/ CallFindDevcontainerConfigs
  \/ CallDeriveDevcontainerProjectName
  \/ CallDeriveProjectNameFromComposeFile
  \/ CallDeriveProjectNameFromComposeFiles
  \/ CallDeriveProjectNameFromConfig
  \/ CallGetComposeFiles
  \/ CallNewClientWithContext
  \/ CallParseConfig
  \/ CallParseConfigOfText
  \/ CallDeduplicateConfigs

PureSpec == PureInit /\ [][PureNext]_vars

(***************************************************************************)
(* runStop (cmd/root.go): flags, discovery, parsing, selection, the client *)
(* and the dispatch to handleImage / handleCompose.                        *)
(***************************************************************************)
\* what a candidate devcontainer.json holds
FileContents ==
  {[state |-> st, Image |-> "", DockerComposeFile |-> <<>>] :
     st \in {"absent", "unreadable", "malformed"}}
  \cup {[state |-> "ok", Image |-> c.Image, DockerComposeFile |-> c.DockerComposeFile] :
          c \in { [Image |-> "golang:1.21", DockerComposeFile |-> <<>>],
                  [Image |-> "", DockerComposeFile |-> <<>>],
                  [Image |-> "", DockerComposeFile |-> <<Path(FALSE, <<ComposeYML>>)>>],
                  [Image |-> "golang:1.21",
                   DockerComposeFile |-> <<Path(FALSE, <<DotDot, ComposeYML>>),
                                           Path(FALSE, <<OverrideYML>>)>>] }}

\* the daemon runStop's handler talks to: one container, one network and one
\* volume of the selected definition, besides those of another project;
\* every call succeeds and nobody else acts
OrchestrationQuiet ==
  /\ remoteContainers = [n \in ContainerNums |-> IF n <= 1 THEN "running" ELSE "absent"]
  /\ remoteNetworks = [n \in NetworkNums |-> n <= 1]
  /\ remoteVolumes = [n \in VolumeNums |-> n <= 1]
  /\ op = "none"
  /\ pc = "idle"
  /\ idx = 1
  /\ found = <<>>
  /\ containers = <<>>
  /\ networks = <<>>
  /\ volumes = <<>>
  /\ removeVolumes = FALSE
  /\ cancelled = FALSE
  /\ calls = <<>>
  /\ result = NoResult
  /\ reinvoked = FALSE
  /\ firstResult = NoResult
  /\ quiet = TRUE
  /\ otherSteps = 0

RunInit ==
  /\ runPc = "start"
  /\ volumesFlag \in BOOLEAN
  /\ downFlag \in BOOLEAN
  /\ fs \in [DOMAIN ConfigLocations -> FileContents]
  /\ configPaths = <<>>
  /\ configs = <<>>
  /\ warnings = <<>>
  /\ offered = <<>>
  /\ prompt = "none"
  /\ selectedConfig = <<>>
  /\ clientCreated = FALSE
  /\ dispatched = "none"
  /\ runErr = "none"
  /\ exitCode = -1
  /\ PureIdle
  /\ OrchestrationQuiet

\* runStop returns err and Execute ends the process: os.Exit(1) on an error
Return(err) ==
  /\ runPc' = "returned"
  /\ runErr' = err
  /\ exitCode' = IF err = "nil" THEN 0 ELSE 1

\* runStop goes on to position p
Proceed(p) ==
  /\ runPc' = p
  /\ UNCHANGED <<runErr, exitCode>>

\* variant: the flags are not looked at
FlagsInvalidNever == FALSE

\* volumesFlag && !downFlag
FlagsInvalid == volumesFlag /\ ~downFlag

runStopValidate ==
  /\ runPc = "start"
  /\ IF FlagsInvalid
     THEN Return("--volumes requires --down flag")
     ELSE Proceed("find")
  /\ UNCHANGED <<volumesFlag, fs, configPaths, configs, warnings, offered, prompt,
                 selectedConfig, clientCreated, dispatched>>
  /\ UNCHANGED <<orchestration, downFlag, pure>>

\* the workspace runStop is started in, as the files of fs lay it out
TreeOf(dirExists) ==
  LET some == \E i \in DOMAIN fs : fs[i].state # "absent"
  IN  [dir |-> dirExists,
       reserved |-> IF some THEN "dir" ELSE "absent",
       flat |-> fs[1].state # "absent",
       entries |-> [i \in 1..NumSubdirs |->
                      IF fs[i + 1].state # "absent" THEN "config" ELSE "none"]]

runStopFind ==
  /\ runPc = "find"
  /\ \E dirExists \in (IF \E i \in DOMAIN fs : fs[i].state # "absent"
                       THEN {TRUE} ELSE BOOLEAN) :
       LET r == FindDevcontainerConfigs(TreeOf(dirExists))
       IN  IF r.err # "nil"
           THEN /\ Return("failed to find devcontainer configs")
                /\ UNCHANGED configPaths
           ELSE /\ configPaths' = r.paths
                /\ IF Len(r.paths) = 0
                   THEN Return("nil")
                   ELSE Proceed("parse")
  /\ UNCHANGED <<volumesFlag, fs, configs, warnings, offered, prompt,
                 selectedConfig, clientCreated, dispatched>>
  /\ UNCHANGED <<orchestration, downFlag, pure>>

FileAt(path) == fs[CHOOSE i \in DOMAIN ConfigLocations : ConfigLocations[i] = path]

\* ParseConfig: the config, or an error when the file cannot be read or decoded
ParseConfig(path) ==
  LET raw == FileAt(path)
  IN  IF raw.state = "ok"
      THEN [err |-> FALSE, config |-> Config(path, raw.Image, raw.DockerComposeFile)]
      ELSE [err |-> TRUE, config |-> Config(path, "", <<>>)]

\* variant: the first file that fails to parse ends the loop
RECURSIVE ParseAllStopAtFailure(_)
ParseAllStopAtFailure(paths) ==
  IF Len(paths) = 0 THEN [configs |-> <<>>, warnings |-> <<>>]
  ELSE LET r == ParseConfig(Head(paths))
       IN  IF r.err
           THEN [configs |-> <<>>, warnings |-> <<Head(paths)>>]
           ELSE LET rest == ParseAllStopAtFailure(Tail(paths))
                IN  [configs |-> <<r.config>> \o rest.configs,
                     warnings |-> rest.warnings]

\* the parse loop of runStop: a file that fails is warned about and skipped
RECURSIVE ParseAll(_)
ParseAll(paths) ==
  IF Len(paths) = 0 THEN [configs |-> <<>>, warnings |-> <<>>]
  ELSE LET r == ParseConfig(Head(paths))
           rest == ParseAll(Tail(paths))
       IN  IF r.err
           THEN [configs |-> rest.configs, warnings |-> <<Head(paths)>> \o rest.warnings]
           ELSE [configs |-> <<r.config>> \o rest.configs, warnings |-> rest.warnings]

runStopParse ==
  /\ runPc = "parse"
  /\ configs' = ParseAll(configPaths).configs
  /\ warnings' = ParseAll(configPaths).warnings
  /\ IF Len(ParseAll(configPaths).configs) = 0
     THEN Return("no valid devcontainer configs found")
     ELSE Proceed("select")
  /\ UNCHANGED <<volumesFlag, fs, configPaths, offered, prompt, selectedConfig,
                 clientCreated, dispatched>>
  /\ UNCHANGED <<orchestration, downFlag, pure>>

\* ui.SelectConfig: the only config left after deduplication, or the user's
\* answer to the prompt; choice 0 is the prompt ending with an error
SelectConfig ==
  /\ runPc = "select"
  /\ IF Len(configs) = 0
     THEN /\ Return("no configs to select from")
          /\ UNCHANGED <<offered, prompt, selectedConfig>>
     ELSE LET uniqueConfigs == deduplicateConfigs(configs)
          IN  /\ offered' = uniqueConfigs
              /\ IF Len(uniqueConfigs) = 1
                 THEN /\ selectedConfig' = uniqueConfigs[1]
                      /\ Proceed("client")
                      /\ UNCHANGED prompt
                 ELSE \E choice \in 0..Len(uniqueConfigs) :
                        IF choice = 0
                        THEN /\ prompt' = "cancelled"
                             /\ Return("selection cancelled")
                             /\ UNCHANGED selectedConfig
                        ELSE /\ prompt' = "answered"
                             /\ selectedConfig' = uniqueConfigs[choice]
                             /\ Proceed("client")
  /\ UNCHANGED <<volumesFlag, fs, configPaths, configs, warnings,
                 clientCreated, dispatched>>
  /\ UNCHANGED <<orchestration, downFlag, pure>>

\* docker.NewClientWithContext(contextFlag): a client, or an error
NewClientWithContext ==
  /\ runPc = "client"
  /\ \E ok \in BOOLEAN :
       IF ok
       THEN /\ clientCreated' = TRUE
            /\ Proceed("dispatch")
       ELSE /\ Return("failed to create docker client")
            /\ UNCHANGED clientCreated
  /\ UNCHANGED <<volumesFlag, fs, configPaths, configs, warnings, offered, prompt,
                 selectedConfig, dispatched>>
  /\ UNCHANGED <<orchestration, downFlag, pure>>

\* runStop hands the selected config to handleCompose or handleImage, with
\* the flags as they are
runStopDispatch ==
  /\ runPc = "dispatch"
  /\ pc = "idle"
  /\ dispatched' = IF IsComposeBased(selectedConfig) THEN "handleCompose"
                   ELSE "handleImage"
  /\ op' = dispatched'
  /\ removeVolumes' = volumesFlag
  /\ pc' = FirstPhase(dispatched')
  /\ Proceed("handler")
  /\ UNCHANGED <<volumesFlag, fs, configPaths, configs, warnings, offered, prompt,
                 selectedConfig, clientCreated>>
  /\ UNCHANGED <<remote, idx, found, containers, networks, volumes, cancelled, calls,
                 result, reinvoked, firstResult, quiet, otherSteps>>
  /\ UNCHANGED <<downFlag, pure>>

\* the handler returned: runStop returns its error, or nil
runStopReturn ==
  /\ runPc = "handler"
  /\ pc = "done"
  /\ Return(IF result = Success THEN "nil" ELSE result.msg)
  /\ UNCHANGED <<volumesFlag, fs, configPaths, configs, warnings, offered, prompt,
                 selectedConfig, clientCreated, dispatched>>
  /\ UNCHANGED <<orchestration, downFlag, pure>>

RunNext ==
  \/ runStopValidate
  \/ runStopFind
  \/ runStopParse
  \/ SelectConfig
  \/ NewClientWithContext
  \/ runStopDispatch
  \/ ContainerList
  \/ ContainerStop
  \/ ContainerRemove
  \/ NetworkList
  \/ NetworkRemove
  \/ VolumeList
  \/ VolumeRemove
  \/ runStopReturn

RunSpec == RunInit /\ [][RunNext]_vars

(***************************************************************************)
(* Properties.                                                             *)
(***************************************************************************)
ListCalls == {"ContainerList", "NetworkList", "VolumeList"}
ComposeOpNames == {"StopComposeProject", "DownComposeProject"}

\* the invocation runs DownComposeProject (directly or from handleCompose)
InDown == op = "DownComposeProject" \/ (op = "handleCompose" /\ downFlag)

\* the calls DownComposeProject itself issued: handleCompose's own list
\* call comes before them
DownCalls ==
  IF op = "handleCompose" THEN (IF Len(calls) = 0 THEN <<>> ELSE Tail(calls))
  ELSE calls

Failed(c) == c.outcome # "ok"

CallsNamed(log, names) == {i \in DOMAIN log : log[i].call \in names}

\* the call for resource id succeeded somewhere in the log
Succeeded(log, name, id) ==
  \E i \in DOMAIN log : log[i].call = name /\ log[i].arg = id /\ log[i].outcome = "ok"

\* the teardown phase a call belongs to
PhaseRank(name) ==
  CASE name = "ContainerList" -> 0
    [] name = "ContainerStop" -> 1
    [] name = "ContainerRemove" -> 2
    [] name = "NetworkList" -> 3
    [] name = "NetworkRemove" -> 4
    [] name = "VolumeList" -> 5
    [] name = "VolumeRemove" -> 6

\* C1: in DownComposeProject the remote calls come in strict phase order:
\* every ContainerStop before every ContainerRemove, every ContainerRemove
\* before the NetworkList and every NetworkRemove, every NetworkRemove before
\* the VolumeList and every VolumeRemove; and a phase begins only when the
\* previous one has completed for every listed resource.
C1_PhaseOrder ==
  InDown =>
    LET log == DownCalls IN
    /\ \A i \in CallsNamed(log, {"ContainerRemove"}) :
         \A j \in CallsNamed(log, {"ContainerStop"}) : j < i
    /\ \A i \in CallsNamed(log, {"NetworkList", "NetworkRemove"}) :
         \A j \in CallsNamed(log, {"ContainerRemove"}) : j < i
    /\ \A i \in CallsNamed(log, {"VolumeList", "VolumeRemove"}) :
         \A j \in CallsNamed(log, {"NetworkRemove"}) : j < i
    /\ (CallsNamed(log, {"ContainerRemove"}) # {} =>
          \A k \in DOMAIN containers : Succeeded(log, "ContainerStop", containers[k].ID))
    /\ (CallsNamed(log, {"NetworkList"}) # {} =>
          \A k \in DOMAIN containers : Succeeded(log, "ContainerRemove", containers[k].ID))
    /\ (CallsNamed(log, {"VolumeList"}) # {} =>
          \A k \in DOMAIN networks : Succeeded(log, "NetworkRemove", networks[k].ID))

\* a full teardown of two containers, a network and a volume has run
C1_Witness ==
  /\ op = "DownComposeProject"
  /\ removeVolumes
  /\ pc = "done"
  /\ result = Success
  /\ Len(containers) = 2
  /\ CallsNamed(calls, {"NetworkRemove"}) # {}
  /\ CallsNamed(calls, {"VolumeRemove"}) # {}

\* C2: when a remote call of DownComposeProject fails, it is the last call
\* of the invocation, the invocation has returned an error, and no call of
\* a later phase (no stop, remove or other action on a later-phase
\* resource) appears in the invocation.
C2_FailureAborts ==
  InDown =>
    LET log == DownCalls IN
    \A i \in DOMAIN log :
      Failed(log[i]) =>
        /\ i = Len(log)
        /\ pc = "done"
        /\ result.status = "err"
        /\ result.cause = log[i].outcome
        /\ \A j \in DOMAIN log :
             /\ PhaseRank(log[j].call) <= PhaseRank(log[i].call)
             /\ log[j].call \in ListCalls \cup
                  {"ContainerStop", "ContainerRemove", "NetworkRemove", "VolumeRemove"}

\* a network removal failed after the containers were removed
C2_Witness ==
  /\ op = "DownComposeProject"
  /\ removeVolumes
  /\ pc = "done"
  /\ Len(calls) > 0
  /\ calls[Len(calls)].call = "NetworkRemove"
  /\ Failed(calls[Len(calls)])
  /\ CallsNamed(calls, {"ContainerRemove"}) # {}
  /\ \A n \in 1..NumVolumes : remoteVolumes[n]

\* the stop / remove calls of the invocation, without the list call
MutationCalls == SelectSeq(calls, LAMBDA c : c.call \notin ListCalls)

\* C3: StopContainers, RemoveContainers and StopComposeProject act on the
\* containers one at a time in list order and stop at the first failure:
\* the k-th call is for the k-th container, a failed call is the last one,
\* the error names that container's ID, and the containers handled before
\* it stay stopped (removed).
C3_FailFastInOrder ==
  op \in {"StopContainers", "RemoveContainers", "StopComposeProject"} =>
    LET log == MutationCalls
        name == IF op = "RemoveContainers" THEN "ContainerRemove" ELSE "ContainerStop" IN
    /\ Len(log) <= Len(containers)
    /\ \A k \in DOMAIN log :
         /\ log[k].call = name
         /\ log[k].arg = containers[k].ID
         /\ (Failed(log[k]) =>
               /\ k = Len(log)
               /\ pc = "done"
               /\ result.status = "err"
               /\ result.id = containers[k].ID)
         /\ (~Failed(log[k]) /\ otherSteps = 0 =>
               IF op = "RemoveContainers"
               THEN remoteContainers[NumOf(containers[k].ID)] = "absent"
               ELSE remoteContainers[NumOf(containers[k].ID)] # "running")
    /\ (pc = "done" /\ result = Success => Len(log) = Len(containers))

\* the second of two stop calls failed; the first container stays stopped
C3_Witness ==
  /\ op = "StopComposeProject"
  /\ pc = "done"
  /\ Len(containers) = 2
  /\ Len(MutationCalls) = 2
  /\ Failed(MutationCalls[2])
  /\ result.id = containers[2].ID
  /\ otherSteps = 0
  /\ remoteContainers[NumOf(containers[1].ID)] = "exited"

\* resource n of a kind carries the project label
Labelled(n) == ProjectFilter \in LabelsOf(n)

\* C4: DownComposeProject on a project with zero matching containers issues
\* no stop or remove call for containers, still issues the NetworkList call
\* (and the VolumeList call when removeVolumes is true) and removes every
\* listed network / volume, and returns success unless one of those calls
\* fails; in the second of two consecutive invocations it returns success
\* and leaves no labelled network (volume); handleCompose with --down goes
\* on to DownComposeProject when its own list is empty.
C4_ZeroContainersStillCleansUp ==
  /\ (op = "handleCompose" /\ downFlag /\ pc = "done" /\ Len(calls) = 1
        => Failed(calls[1]))
  /\ (InDown /\ Len(DownCalls) >= 1 /\ DownCalls[1].outcome = "ok"
        /\ Len(containers) = 0) =>
       LET log == DownCalls IN
       /\ CallsNamed(log, {"ContainerStop", "ContainerRemove"}) = {}
       /\ (pc = "done" =>
             \/ \E i \in DOMAIN log : Failed(log[i])
             \/ /\ result = Success
                /\ CallsNamed(log, {"NetworkList"}) # {}
                /\ (removeVolumes => CallsNamed(log, {"VolumeList"}) # {})
                /\ \A k \in DOMAIN networks :
                     Succeeded(log, "NetworkRemove", networks[k].ID)
                /\ (removeVolumes =>
                      \A k \in DOMAIN volumes :
                        Succeeded(log, "VolumeRemove", volumes[k].Name))
                /\ (Len(networks) = 0 /\ Len(volumes) = 0 =>
                      \A i \in DOMAIN log : log[i].call \in ListCalls))
       /\ (pc = "done" /\ quiet =>
             /\ result = Success
             /\ \A n \in NetworkNums : Labelled(n) => ~remoteNetworks[n]
             /\ (removeVolumes =>
                   \A n \in VolumeNums : Labelled(n) => ~remoteVolumes[n]))

\* the second of two consecutive successful downs found no container and
\* still listed networks and volumes
C4_Witness ==
  /\ op = "DownComposeProject"
  /\ removeVolumes
  /\ reinvoked
  /\ firstResult = Success
  /\ pc = "done"
  /\ result = Success
  /\ Len(containers) = 0
  /\ CallsNamed(calls, {"NetworkList"}) # {}
  /\ CallsNamed(calls, {"VolumeList"}) # {}

\* C5: when DownComposeProject has returned an error and is invoked again
\* with the same arguments, every call now succeeding and nobody else
\* changing the remote state, it returns success and no container, no
\* network and (if removeVolumes) no volume with the project label is left.
C5_RetryCompletes ==
  (InDown /\ reinvoked /\ quiet /\ firstResult.status = "err" /\ pc = "done") =>
    /\ result = Success
    /\ \A n \in ContainerNums : Labelled(n) => remoteContainers[n] = "absent"
    /\ \A n \in NetworkNums : Labelled(n) => ~remoteNetworks[n]
    /\ (removeVolumes => \A n \in VolumeNums : Labelled(n) => ~remoteVolumes[n])

\* a teardown that failed while removing containers was re-invoked and
\* has completed
C5_Witness ==
  /\ op = "DownComposeProject"
  /\ removeVolumes
  /\ reinvoked
  /\ firstResult.status = "err"
  /\ firstResult.msg = "failed to remove container"
  /\ pc = "done"
  /\ Len(containers) >= 1

\* C6: StopComposeProject and DownComposeProject do not fail merely because
\* a listed container, network or volume was removed by another actor
\* before its stop / remove call: they never return the daemon's not-found
\* error.
C6_ToleratesMissing ==
  (op \in ComposeOpNames /\ pc = "done" /\ result.status = "err") =>
    result.cause # "notfound"

\* C7: with removeVolumes false DownComposeProject issues no VolumeList and
\* no VolumeRemove call, whether it succeeds or fails, and the remote
\* volumes stay as they were; with removeVolumes true the volumes are listed
\* and removed only after every listed network was removed successfully.
C7_VolumesOnlyOnRequest ==
  InDown =>
    LET log == DownCalls IN
    /\ (~removeVolumes => CallsNamed(log, {"VolumeList", "VolumeRemove"}) = {})
    /\ (~removeVolumes /\ otherSteps = 0 => \A n \in VolumeNums : remoteVolumes[n])
    /\ (CallsNamed(log, {"VolumeList", "VolumeRemove"}) # {} =>
          /\ removeVolumes
          /\ \E i \in DOMAIN log : log[i].call = "NetworkList" /\ log[i].outcome = "ok"
          /\ \A k \in DOMAIN networks :
               Succeeded(log, "NetworkRemove", networks[k].ID))

\* a teardown without volumes removed a network and returned
C7_Witness ==
  /\ InDown
  /\ ~removeVolumes
  /\ pc = "done"
  /\ result = Success
  /\ otherSteps = 0
  /\ CallsNamed(calls, {"NetworkRemove"}) # {}
  /\ \A n \in VolumeNums : remoteVolumes[n]

\* C8: in DownComposeProject and in handleImage with --down every
\* ContainerRemove call has force = true and comes after a successful
\* ContainerStop call on the same container ID in the same invocation.
C8_RemoveAfterStopForced ==
  (InDown \/ (op = "handleImage" /\ downFlag)) =>
    \A i \in CallsNamed(calls, {"ContainerRemove"}) :
      /\ calls[i].flag = TRUE
      /\ \E j \in 1..(i - 1) :
           /\ calls[j].call = "ContainerStop"
           /\ calls[j].arg = calls[i].arg
           /\ calls[j].outcome = "ok"

\* handleImage --down stopped and removed two containers
C8_Witness ==
  /\ op = "handleImage"
  /\ downFlag
  /\ pc = "done"
  /\ result = Success
  /\ Cardinality(CallsNamed(calls, {"ContainerRemove"})) = 2

\* C9: within one invocation of StopContainers, RemoveContainers,
\* StopComposeProject or DownComposeProject no list call is issued twice,
\* no stop / remove call is issued twice for the same resource, and a call
\* that failed is the last call of the invocation.
C9_NoRetry ==
  op \in {"StopContainers", "RemoveContainers", "StopComposeProject",
          "DownComposeProject"} =>
    /\ \A i, j \in DOMAIN calls :
         (i < j /\ calls[i].call = calls[j].call) =>
            /\ calls[i].call \notin ListCalls
            /\ calls[i].arg # calls[j].arg
    /\ \A i \in DOMAIN calls : Failed(calls[i]) => (i = Len(calls) /\ pc = "done")

\* a teardown failed at the removal of its second container
C9_Witness ==
  /\ op = "DownComposeProject"
  /\ pc = "done"
  /\ result.status = "err"
  /\ Len(calls) = 5
  /\ calls[5].call = "ContainerRemove"
  /\ Failed(calls[5])

WantedContainerLabel ==
  IF op = "handleImage" THEN <<ConfigFileLabelKey, configPath>>
  ELSE <<ProjectLabelKey, projectName>>

WantedProjectLabel == <<ProjectLabelKey, projectName>>

\* an earlier, successful call named `name` precedes call i
ListedBefore(i, name) ==
  \E j \in 1..(i - 1) : calls[j].call = name /\ calls[j].outcome = "ok"

\* C11: every stop / remove call targets a resource returned by a
\* label-filtered list call of the same invocation: containers (stopped ones
\* included) listed with com.docker.compose.project=<ProjectName> for a
\* compose-based definition and with devcontainer.config_file=<path> for an
\* image-based one, networks and volumes listed with the project filter; no
\* resource carrying another label value is stopped or removed.
C11_OnlyListedLabelledResources ==
  op \in {"StopComposeProject", "DownComposeProject", "handleImage", "handleCompose"} =>
    /\ \A i \in CallsNamed(calls, {"ContainerList"}) :
         calls[i].filter = WantedContainerLabel /\ calls[i].flag = TRUE
    /\ \A i \in CallsNamed(calls, {"NetworkList", "VolumeList"}) :
         calls[i].filter = WantedProjectLabel
    /\ \A i \in CallsNamed(calls, {"ContainerStop", "ContainerRemove"}) :
         /\ ListedBefore(i, "ContainerList")
         /\ \E k \in DOMAIN containers : containers[k].ID = calls[i].arg
         /\ WantedContainerLabel \in LabelsOf(NumOf(calls[i].arg))
    /\ \A i \in CallsNamed(calls, {"NetworkRemove"}) :
         /\ ListedBefore(i, "NetworkList")
         /\ \E k \in DOMAIN networks : networks[k].ID = calls[i].arg
         /\ WantedProjectLabel \in LabelsOf(NumOf(calls[i].arg))
    /\ \A i \in CallsNamed(calls, {"VolumeRemove"}) :
         /\ ListedBefore(i, "VolumeList")
         /\ \E k \in DOMAIN volumes : volumes[k].Name = calls[i].arg
         /\ WantedProjectLabel \in LabelsOf(NumOf(calls[i].arg))
    /\ remoteContainers[0] = "running"
    /\ remoteNetworks[0]
    /\ remoteVolumes[0]

\* handleCompose --down --volumes removed the project's containers, a
\* network and a volume; the other project's resources are all still there
C11_Witness ==
  /\ op = "handleCompose"
  /\ downFlag
  /\ removeVolumes
  /\ pc = "done"
  /\ result = Success
  /\ Len(containers) >= 1
  /\ CallsNamed(calls, {"NetworkRemove"}) # {}
  /\ CallsNamed(calls, {"VolumeRemove"}) # {}
  /\ remoteContainers[0] = "running"

\* the last call of the invocation is a failed stop / remove call
LastCallFailed(names) ==
  /\ pc = "done"
  /\ result.status = "err"
  /\ Len(calls) > 0
  /\ calls[Len(calls)].call \in names
  /\ Failed(calls[Len(calls)])

FirstPositions(cs) ==
  {i \in DOMAIN cs :
     \A j \in 1..(i - 1) :
        DeriveProjectNameFromConfig(cs[j]) # DeriveProjectNameFromConfig(cs[i])}

\* out is cs at the increasing positions pos
RECURSIVE IsSubsequenceFrom(_, _, _)
IsSubsequenceFrom(out, cs, from) ==
  IF Len(out) = 0 THEN TRUE
  ELSE \E i \in from..Len(cs) :
         cs[i] = out[1] /\ IsSubsequenceFrom(Tail(out), cs, i + 1)

\* C13: when the user cancels the selection prompt, the invocation ends as a
\* benign non-error outcome, a clean exit, and no remote client is created
\* and no list / stop / remove call is issued.
C13_CancelIsBenign ==
  prompt = "cancelled" =>
    /\ runPc = "returned"
    /\ runErr = "nil"
    /\ exitCode = 0
    /\ ~clientCreated
    /\ dispatched = "none"
    /\ calls = <<>>

\* the files that parse, as configs, in the order of discovery
RECURSIVE ParsedFrom(_)
ParsedFrom(i) ==
  IF i > Len(ConfigLocations) THEN <<>>
  ELSE (IF fs[i].state = "ok"
        THEN <<Config(ConfigLocations[i], fs[i].Image, fs[i].DockerComposeFile)>>
        ELSE <<>>)
       \o ParsedFrom(i + 1)

\* the files that exist and do not parse, in the order of discovery
RECURSIVE FailedFrom(_)
FailedFrom(i) ==
  IF i > Len(ConfigLocations) THEN <<>>
  ELSE (IF fs[i].state \in {"unreadable", "malformed"}
        THEN <<ConfigLocations[i]>> ELSE <<>>)
       \o FailedFrom(i + 1)

\* SelectConfig has chosen or was cancelled
Selected == runPc \in {"client", "dispatch", "handler"} \/ prompt # "none"

\* a file that does not parse never aborts the invocation nor is selected
SkippedWithWarning ==
  /\ (runPc \notin {"start", "find", "parse"} /\ Len(configPaths) > 0 =>
        /\ configs = ParsedFrom(1)
        /\ warnings = FailedFrom(1))
  /\ (runPc = "returned" /\ dispatched = "none" /\ Len(ParsedFrom(1)) > 0 =>
        runErr \in {"--volumes requires --down flag", "selection cancelled",
                    "failed to create docker client"})
  /\ (selectedConfig # <<>> =>
        /\ FileAt(selectedConfig.ConfigPath).state = "ok"
        /\ \E i \in DOMAIN ParsedFrom(1) : ParsedFrom(1)[i] = selectedConfig)

\* C14 as stated: a definition file that cannot be read or parsed is skipped
\* with a warning and does not abort the invocation; every other discovered
\* definition that parses is offered for selection, in discovery order, and a
\* failed file is never the selected definition.
C14_EveryParsedOffered ==
  /\ SkippedWithWarning
  /\ Selected => offered = ParsedFrom(1)

\* C14 as amended: a definition file that cannot be read or parsed is skipped
\* with a warning and does not abort the invocation; every other discovered
\* definition that parses is handed to the selection in discovery order, the
\* selection offers the first of them for each ProjectName, in discovery
\* order, and a failed file is never the selected definition.
C14_FirstParsedOfEachNameOffered ==
  /\ SkippedWithWarning
  /\ Selected =>
       /\ IsSubsequenceFrom(offered, ParsedFrom(1), 1)
       /\ Len(offered) = Cardinality(FirstPositions(ParsedFrom(1)))
       /\ \A i \in FirstPositions(ParsedFrom(1)) :
            \E k \in DOMAIN offered : offered[k] = ParsedFrom(1)[i]

\* the first file found does not parse, two later ones do, and the user
\* selected the last of them
C14_Witness ==
  /\ fs[1].state \in {"unreadable", "malformed"}
  /\ warnings = <<ConfigLocations[1]>>
  /\ Len(offered) = 2
  /\ prompt = "answered"
  /\ selectedConfig = offered[2]
  /\ clientCreated

\* C15: --volumes requires --down: with --volumes and without --down the
\* command returns an error before any discovery, selection or remote call,
\* so no container, network or volume is touched.
C15_VolumesRequiresDown ==
  volumesFlag /\ ~downFlag /\ runPc # "start" =>
    /\ runPc = "returned"
    /\ runErr = "--volumes requires --down flag"
    /\ exitCode = 1
    /\ configPaths = <<>>
    /\ configs = <<>>
    /\ warnings = <<>>
    /\ offered = <<>>
    /\ prompt = "none"
    /\ selectedConfig = <<>>
    /\ ~clientCreated
    /\ dispatched = "none"
    /\ calls = <<>>
    /\ OrchestrationQuiet

\* --volumes without --down was refused although a devcontainer.json is there
C15_Witness ==
  /\ volumesFlag
  /\ ~downFlag
  /\ runPc = "returned"
  /\ runErr = "--volumes requires --down flag"
  /\ fs[1].state = "ok"

\* a name has a character strings.ToLower changes
HasUpper(name) ==
  \E i \in DOMAIN name : \E k \in DOMAIN Uppercase : name[i] = Uppercase[k]

\* paths of the tests
WsFlatJSON == Path(TRUE, <<<<"W", "s">>, DotDevcontainer, DevcontainerJSON>>)
WsMultiJSON == Path(TRUE, <<<<"W", "s">>, DotDevcontainer, <<"A", "p">>, DevcontainerJSON>>)
WsFlatYML == Path(TRUE, <<<<"W", "s">>, DotDevcontainer, ComposeYML>>)
WsMultiYML == Path(TRUE, <<<<"W", "s">>, DotDevcontainer, <<"A", "p">>, ComposeYML>>)
WsOutsideYML == Path(TRUE, <<<<"W", "s">>, ComposeYML>>)

\* C16: DeriveDevcontainerProjectName(path), with configDir the parent
\* directory of path, is lowercase(base name of configDir's parent) +
\* "_devcontainer" when configDir's base name is ".devcontainer" and
\* lowercase(base name of configDir) otherwise; equal paths give equal
\* results and the result has no uppercase letter.
C16_DeriveDevcontainerProjectName ==
  fn = "DeriveDevcontainerProjectName" =>
    LET path == input[2]
        n == Len(path.segs)
        configDir == Dir(path)
    IN  /\ Base(configDir) = DotDevcontainer =>
             output = ToLower(Base(Dir(configDir))) \o DevcontainerSuffix
        /\ Base(configDir) # DotDevcontainer =>
             output = ToLower(Base(configDir))
        /\ n >= 3 /\ path.segs[n - 1] = DotDevcontainer =>
             /\ Len(output) = Len(path.segs[n - 2]) + Len(DevcontainerSuffix)
             /\ \A i \in 1..Len(path.segs[n - 2]) :
                  output[i] = LowerOf(path.segs[n - 2][i])
        /\ n >= 2 /\ path.segs[n - 1] # DotDevcontainer =>
             /\ Len(output) = Len(path.segs[n - 1])
             /\ \A i \in 1..Len(output) : output[i] = LowerOf(path.segs[n - 1][i])
        /\ path = WsFlatJSON => output = <<"w", "s">> \o DevcontainerSuffix
        /\ path = WsMultiJSON => output = <<"a", "p">>
        /\ output = DeriveDevcontainerProjectName(path)
        /\ ~HasUpper(output)

\* /Ws/.devcontainer/devcontainer.json gave "ws_devcontainer"
C16_Witness ==
  /\ fn = "DeriveDevcontainerProjectName"
  /\ input[2] = WsFlatJSON
  /\ HasUpper(Base(Dir(Dir(input[2]))))
  /\ output = <<"w", "s">> \o DevcontainerSuffix

\* C17: DeriveProjectNameFromComposeFile(path), with dir the parent
\* directory of path, is lowercase(base name of dir's parent) +
\* "_devcontainer" when dir's base name is ".devcontainer"; otherwise it is
\* lowercase(base name of dir), when dir sits one level under ".devcontainer"
\* and when the compose file lives outside ".devcontainer" alike.
C17_DeriveProjectNameFromComposeFile ==
  fn = "DeriveProjectNameFromComposeFile" =>
    LET path == input[2]
        n == Len(path.segs)
        dir == Dir(path)
    IN  /\ Base(dir) = DotDevcontainer =>
             output = ToLower(Base(Dir(dir))) \o DevcontainerSuffix
        /\ Base(dir) # DotDevcontainer => output = ToLower(Base(dir))
        /\ n >= 2 /\ path.segs[n - 1] # DotDevcontainer =>
             /\ Len(output) = Len(path.segs[n - 1])
             /\ \A i \in 1..Len(output) : output[i] = LowerOf(path.segs[n - 1][i])
        /\ path = WsFlatYML => output = <<"w", "s">> \o DevcontainerSuffix
        /\ path = WsMultiYML => output = <<"a", "p">>
        /\ path = WsOutsideYML => output = <<"w", "s">>

\* /Ws/.devcontainer/Ap/docker-compose.yml gave "ap"
C17_Witness ==
  /\ fn = "DeriveProjectNameFromComposeFile"
  /\ input[2] = WsMultiYML
  /\ Base(Dir(Dir(input[2]))) = DotDevcontainer
  /\ output = <<"a", "p">>

\* C18: DeriveProjectNameFromComposeFiles(seq) depends on the first element
\* only: for a non-empty seq it is DeriveProjectNameFromComposeFile(seq[0])
\* whatever the later elements are, and for an empty seq it is the empty
\* string.
C18_FirstComposeFileNames ==
  fn = "DeriveProjectNameFromComposeFiles" =>
    LET files == input[2]
    IN  /\ Len(files) = 0 => output = <<>>
        /\ Len(files) > 0 =>
             /\ output = DeriveProjectNameFromComposeFile(files[1])
             /\ output = DeriveProjectNameFromComposeFiles(<<files[1]>>)
             /\ \A later \in SeqsUpTo(SamplePaths, 1) :
                  DeriveProjectNameFromComposeFiles(<<files[1]>> \o later) = output

\* two compose files that would give different names: the first one's is given
C18_Witness ==
  /\ fn = "DeriveProjectNameFromComposeFiles"
  /\ Len(input[2]) = 2
  /\ DeriveProjectNameFromComposeFile(input[2][1])
       # DeriveProjectNameFromComposeFile(input[2][2])
  /\ output = DeriveProjectNameFromComposeFile(input[2][1])

\* the first compose file of a config, resolved against the directory of the
\* config's own file
FirstComposeFileResolved(c) ==
  LET f == c.DockerComposeFile[1]
  IN  IF f.abs THEN f
      ELSE Clean(Path(c.ConfigPath.abs, Dir(c.ConfigPath).segs \o f.segs))

\* C19: DeriveProjectNameFromConfig(def) is, for a non-empty compose-file
\* sequence, the compose-path name of the first compose file resolved against
\* the definition file's own directory, and DeriveDevcontainerProjectName of
\* def.ConfigPath otherwise.
C19_DeriveProjectNameFromConfig ==
  fn = "DeriveProjectNameFromConfig" =>
    LET c == input[2]
    IN  /\ Len(c.DockerComposeFile) > 0 =>
             output = DeriveProjectNameFromComposeFile(FirstComposeFileResolved(c))
        /\ Len(c.DockerComposeFile) = 0 =>
             output = DeriveDevcontainerProjectName(c.ConfigPath)
        /\ c.ConfigPath = ConfigLocations[1] =>
             /\ c.DockerComposeFile = <<Path(FALSE, <<ComposeYML>>)>> =>
                  output = <<"w", "s">> \o DevcontainerSuffix
             /\ c.DockerComposeFile = <<Path(FALSE, <<DotDot, ComposeYML>>)>> =>
                  output = <<"w", "s">>
             /\ c.DockerComposeFile = <<>> =>
                  output = <<"w", "s">> \o DevcontainerSuffix
        /\ c.ConfigPath = ConfigLocations[2] =>
             /\ c.DockerComposeFile = <<Path(FALSE, <<ComposeYML>>)>> =>
                  output = <<"a", "p">>

\* "../docker-compose.yml" in /h/Ws/.devcontainer/devcontainer.json gave "ws"
C19_Witness ==
  /\ fn = "DeriveProjectNameFromConfig"
  /\ input[2].ConfigPath = ConfigLocations[1]
  /\ input[2].DockerComposeFile[1] = Path(FALSE, <<DotDot, ComposeYML>>)
  /\ output = <<"w", "s">>

\* C20: deduplicateConfigs keeps the first-encountered definition of each
\* ProjectName: the output is a subsequence of the input in the same order,
\* its ProjectNames are pairwise distinct, every ProjectName of the input
\* occurs in it, and the definition kept for a name is the earliest input
\* definition of that name.
C20_DeduplicateKeepsFirst ==
  fn = "deduplicateConfigs" =>
    LET cs == input[2]
        Name(c) == DeriveProjectNameFromConfig(c)
    IN  /\ IsSubsequenceFrom(output, cs, 1)
        /\ \A k, l \in DOMAIN output : k # l => Name(output[k]) # Name(output[l])
        /\ \A i \in DOMAIN cs : \E k \in DOMAIN output : Name(output[k]) = Name(cs[i])
        /\ \A k \in DOMAIN output :
             \E i \in FirstPositions(cs) : output[k] = cs[i] /\ Name(cs[i]) = Name(output[k])
        /\ Len(output) = Cardinality(FirstPositions(cs))

\* two different definitions of one ProjectName went in, the first came out
C20_Witness ==
  /\ fn = "deduplicateConfigs"
  /\ Len(input[2]) = 2
  /\ input[2][1] # input[2][2]
  /\ DeriveProjectNameFromConfig(input[2][1]) = DeriveProjectNameFromConfig(input[2][2])
  /\ output = <<input[2][1]>>

\* C28: StopComposeProject only lists and stops: one ContainerList call, then
\* ContainerStop calls for the listed containers, never a ContainerRemove,
\* NetworkList, NetworkRemove, VolumeList or VolumeRemove call; with zero
\* listed containers it issues no stop call and returns success.
C28_StopOnlyListsAndStops ==
  op = "StopComposeProject" =>
    /\ \A i \in DOMAIN calls :
         /\ calls[i].call = (IF i = 1 THEN "ContainerList" ELSE "ContainerStop")
         /\ i > 1 => /\ calls[1].outcome = "ok"
                     /\ i - 1 \in DOMAIN containers
                     /\ calls[i].arg = containers[i - 1].ID
    /\ pc = "done" => Len(calls) >= 1
    /\ pc = "done" /\ result = Success => Len(calls) = 1 + Len(containers)
    /\ pc = "done" /\ calls[1].outcome = "ok" /\ Len(containers) = 0 =>
         /\ Len(calls) = 1
         /\ result = Success

\* StopComposeProject stopped two listed containers and returned nil
C28_Witness ==
  /\ op = "StopComposeProject"
  /\ pc = "done"
  /\ result = Success
  /\ Len(containers) = 2
  /\ Len(calls) = 3
  /\ calls[3].call = "ContainerStop"

\* the identifiers of a sequence of containers
IDsOf(cs) == {cs[k].ID : k \in DOMAIN cs}

\* C30: in handleCompose, the containers acted on are the containers
\* reported to the user: the containers StopComposeProject /
\* DownComposeProject ranges over are exactly those the preceding
\* FindComposeContainers call returned, also when another actor adds or
\* removes project containers between the two list calls.
C30_ActedOnEqualsReported ==
  /\ op = "handleCompose"
  /\ Len(calls) >= 2
  /\ calls[2].call = "ContainerList"
  /\ calls[2].outcome = "ok"
  => /\ IDsOf(containers) = IDsOf(found)
     /\ \A i \in CallsNamed(calls, {"ContainerStop"}) : calls[i].arg \in IDsOf(found)

\* the paths of the two layouts that exist in workspace t, flat file first
ExistingOfLayouts(t) ==
  {ConfigLocations[1] : x \in {y \in {1} : t.flat}}
  \cup {ConfigLocations[i + 1] : i \in {j \in 1..NumSubdirs : t.entries[j] = "config"}}

\* the position of a path among the candidate locations
LocationOf(path) == CHOOSE i \in DOMAIN ConfigLocations : ConfigLocations[i] = path

\* C21: FindDevcontainerConfigs returns exactly the existing files of the two
\* layouts, <root>/.devcontainer/devcontainer.json and
\* <root>/.devcontainer/<subdir>/devcontainer.json for every immediate
\* subdirectory, the flat file first and then the subdirectory files in
\* directory-listing order, no other path and no path twice.
C21_FindsExactlyTheLayouts ==
  fn = "FindDevcontainerConfigs" /\ output.err = "nil" =>
    LET t == input[2]
        paths == output.paths
    IN  /\ {paths[k] : k \in DOMAIN paths} = ExistingOfLayouts(t)
        /\ \A k, l \in DOMAIN paths : k < l => LocationOf(paths[k]) < LocationOf(paths[l])
        /\ Len(paths) = Cardinality(ExistingOfLayouts(t))
        /\ \A k \in DOMAIN paths :
             /\ paths[k].abs
             /\ Base(paths[k]) = DevcontainerJSON
             /\ \/ Dir(paths[k]) = Join(absDir, Path(FALSE, <<DotDevcontainer>>))
                \/ Dir(Dir(paths[k])) = Join(absDir, Path(FALSE, <<DotDevcontainer>>))
        /\ t.flat => paths[1] = ConfigLocations[1]

\* a flat file and a file in every directory: all found, the flat one first
C21_Witness ==
  /\ fn = "FindDevcontainerConfigs"
  /\ input[2].flat
  /\ \A i \in 1..NumSubdirs : input[2].entries[i] = "config"
  /\ output.err = "nil"
  /\ Len(output.paths) = NumSubdirs + 1
  /\ output.paths[1] = ConfigLocations[1]
  /\ output.paths[2] = ConfigLocations[2]

\* C22: FindDevcontainerConfigs fails, returning no path, if the root
\* directory does not exist, and returns an empty result without error when
\* the root exists but .devcontainer is absent or holds no matching file.
C22_MissingRootFailsEmptyIsFine ==
  fn = "FindDevcontainerConfigs" =>
    LET t == input[2]
    IN  /\ ~t.dir => output.err = "directory does not exist" /\ output.paths = <<>>
        /\ t.dir /\ t.reserved = "absent" => output.err = "nil" /\ output.paths = <<>>
        /\ t.dir /\ t.reserved = "dir" /\ ExistingOfLayouts(t) = {} =>
             output.err = "nil" /\ output.paths = <<>>
        /\ output.err # "nil" => output.paths = <<>>

\* the root directory is not there: an error and no path
C22_Witness ==
  /\ fn = "FindDevcontainerConfigs"
  /\ ~input[2].dir
  /\ output.err = "directory does not exist"
  /\ output.paths = <<>>

\* the selected definition has neither an image nor a compose file
NeitherImageNorCompose ==
  /\ selectedConfig # <<>>
  /\ selectedConfig.Image = ""
  /\ Len(selectedConfig.DockerComposeFile) = 0

\* C23: a definition with both image and compose files empty parses, is
\* treated as image-based, and no container ever matches it: the invocation
\* issues no ContainerStop and no ContainerRemove call for it.
C23_NeitherNeverMatches ==
  NeitherImageNorCompose =>
    /\ FileAt(selectedConfig.ConfigPath).state = "ok"
    /\ dispatched \in {"none", "handleImage"}
    /\ \A i \in DOMAIN calls : calls[i].call \notin {"ContainerStop", "ContainerRemove"}

\* C24: GetComposeFiles returns one path per compose-file entry, in the given
\* order; an absolute entry is returned unchanged, a relative entry is the
\* cleaned path of the entry under the directory that holds the definition
\* file (a leading ".." leaves that directory), not under the workspace root.
C24_GetComposeFilesResolvesFromConfigDir ==
  fn = "GetComposeFiles" =>
    LET c == input[2]
        entries == c.DockerComposeFile
        d == SubSeq(c.ConfigPath.segs, 1, Len(c.ConfigPath.segs) - 1)
    IN  /\ Len(output) = Len(entries)
        /\ \A i \in DOMAIN entries :
             IF entries[i].abs
             THEN output[i] = entries[i]
             ELSE /\ output[i].abs
                  /\ output[i].segs =
                       (IF entries[i].segs[1] = DotDot
                        THEN SubSeq(d, 1, Len(d) - 1) \o Tail(entries[i].segs)
                        ELSE d \o entries[i].segs)
        /\ c.ConfigPath = ConfigLocations[1] =>
             \A i \in DOMAIN entries :
               /\ entries[i] = Path(FALSE, <<ComposeYML>>) =>
                    output[i] = Path(TRUE, absDir.segs \o <<DotDevcontainer, ComposeYML>>)
               /\ entries[i] = Path(FALSE, <<DotDot, ComposeYML>>) =>
                    output[i] = Path(TRUE, absDir.segs \o <<ComposeYML>>)

\* an absolute and a relative entry of .devcontainer/devcontainer.json
C24_Witness ==
  /\ fn = "GetComposeFiles"
  /\ input[2].ConfigPath = ConfigLocations[1]
  /\ Len(input[2].DockerComposeFile) = 2
  /\ input[2].DockerComposeFile[1].abs
  /\ output = <<input[2].DockerComposeFile[1],
                Path(TRUE, absDir.segs \o <<DotDevcontainer, ComposeYML>>)>>

\* what runStop's handler asks the daemon for: handleCompose lists by the
\* project label of the derived name, handleImage by the config-file label
\* of the definition's path
RemoteLookup(cfg) ==
  IF IsComposeBased(cfg)
  THEN [kind |-> "compose", key |-> ProjectLabelKey,
        value |-> DeriveProjectNameFromConfig(cfg)]
  ELSE [kind |-> "image", key |-> ConfigFileLabelKey, value |-> cfg.ConfigPath]

\* C29: whenever deduplicateConfigs drops a definition because its
\* ProjectName equals that of an earlier one, the dropped and the kept
\* definition resolve to the same remote lookup: same kind and same label
\* filter.
C29_DroppedResolvesAsKept ==
  fn = "deduplicateConfigs" =>
    \A i \in DOMAIN input[2] : \A k \in DOMAIN output :
      DeriveProjectNameFromConfig(input[2][i]) = DeriveProjectNameFromConfig(output[k])
        => RemoteLookup(input[2][i]) = RemoteLookup(output[k])

\* the endpoint of the first source that is present, in the documented
\* order; the context named "default" stands for what the environment gives
DocumentedEndpoint(env) ==
  LET OfContext(name) == IF name = "default" THEN FromEnv(env) ELSE WithHost(name)
  IN  IF env.contextName # "" THEN OfContext(env.contextName)
      ELSE IF env.DOCKER_CONTEXT # "" THEN OfContext(env.DOCKER_CONTEXT)
      ELSE IF env.currentContext # "" THEN OfContext(env.currentContext)
      ELSE FromEnv(env)

\* C27: the endpoint is resolved in this priority order, each source used
\* only when all earlier ones are absent: the --context flag, DOCKER_CONTEXT,
\* currentContext of config.json, DOCKER_HOST, the default socket.
C27_DocumentedPriority ==
  fn = "NewClientWithContext" /\ output.err = "nil" =>
    output.opts = DocumentedEndpoint(input[2])

\* the value is an array whose elements are all strings
IsArrayOfStrings(v) ==
  v.kind = "array" /\ \A i \in DOMAIN v.val : v.val[i].kind = "string"

\* C25: dockerComposeFile accepts a single string or an array of strings: a
\* string s yields <<s>>, an array yields its elements in order, any other
\* JSON value is a parse error, and the definition is compose-based exactly
\* when the sequence is non-empty, image-based exactly when image is
\* non-empty and the sequence is empty, never both.
C25_StringOrArrayOfStrings ==
  fn = "ParseConfig" =>
    LET v == input[2].dockerComposeFile
        c == output.config
    IN  /\ v.kind = "string" /\ output.err = "nil" => c.DockerComposeFile = <<v.val>>
        /\ IsArrayOfStrings(v) /\ output.err = "nil" =>
             c.DockerComposeFile = [i \in DOMAIN v.val |-> v.val[i].val]
        /\ v.kind # "absent" /\ v.kind # "string" /\ ~IsArrayOfStrings(v) =>
             output.err # "nil"
        /\ output.err = "nil" =>
             /\ IsComposeBased(c) <=> Len(c.DockerComposeFile) > 0
             /\ IsImageBased(c) <=> (c.Image # "" /\ Len(c.DockerComposeFile) = 0)
             /\ ~(IsComposeBased(c) /\ IsImageBased(c))

\* the same text with the comments and the trailing commas removed
WithoutRelaxations(parts) ==
  LET member == IF parts.member[Len(parts.member)] = "]"
                THEN SelectSeq(parts.member, LAMBDA ch : ch \notin {",", " "})
                ELSE parts.member
  IN  <<"{", Newline>> \o member \o <<" ", "}", Newline>>

\* C26: for every definition text with line comments, block comments and
\* trailing commas before a closing } or ], none of them inside string
\* literals, ParseConfig yields the same definition as for the same text
\* with those comments and trailing commas removed.
C26_RelaxedDialectRoundTrip ==
  fn = "ParseConfigOfText" =>
    /\ ParseConfigOfText(ConfigLocations[1], WithoutRelaxations(input[2])).err = "nil"
    /\ output = ParseConfigOfText(ConfigLocations[1], WithoutRelaxations(input[2]))

====
